---- MODULE Spec2Model ----
(***************************************************************************)
(* A model of the coordination layer of go-tss:                            *)
(*   - the broadcast confirm engine of the Tss server                      *)
(*     (processOneMessage, processTSSMsg, processVerMsg, updateLocal),     *)
(*   - the join-party coordinator of package p2p                           *)
(*     (processJoinPartyRequest, onJoinParty, onJoinPartyTimeout).         *)
(***************************************************************************)
EXTENDS Integers, Sequences, FiniteSets, Bags, TLC

(***************************************************************************)
(* Bounds of the model.                                                    *)
(***************************************************************************)
\* how many times the crypto party of one node may be updated for one cache key
MaxUpdates == 2
\* how many messages one node queues before its local party is ready
MaxQueue == 1
\* how many join requests the leader is sent, its own included
MaxRequests == 3
\* how many times Keygen is called on one TssServer
MaxKeygenCalls == 2
\* how many cached items of the last round the timeout blame is given
MaxCachedItems == 2
\* how many nodes a Blame starts with, and how many one call adds
MaxBlameNodes == 2
\* how many messages a Notifier has and how many signatures a batch has
MaxBatch == 2
\* how many times ProcessSignature is called on one Notifier
MaxSubmissions == 2
MaxSigners == 3
MaxPartyCount == 60
MaxSigBytes == 3
\* the ticks of bf.MaxElapsedTime
MaxBackoffBudget == 3
\* the messages queued before the local party is set
MaxQueued == 2
\* the keygen requests of the HTTP driver
MaxKeygenRequests == 2

(***************************************************************************)
(* The participants of one ceremony.                                       *)
(***************************************************************************)
Nil == "nil"
\* a nil *WireMessage and an empty hash string
NilMsg == [From |-> Nil, RoundInfo |-> Nil, Message |-> Nil, IsBroadcast |-> FALSE]
NoHash == <<>>

\* party IDs of the ceremony (keyGenInfo.PartyIDMap): the index of the key
Parties == {"0", "1", "2"}
\* the parties that run this code; the remaining party is an arbitrary sender
Nodes == {"0", "1"}
Byzantine == Parties \ Nodes

Rounds == {"r1"}
Payloads == {"A", "B"}

\* bytesToHashString: the hex SHA256 of the payload, modelled as injective
bytesToHashString(msg) == <<"sha256", msg>>
Hashes == {bytesToHashString(p) : p \in Payloads}

\* WireMessage{Routing{From, IsBroadcast}, RoundInfo, Message}
WireMessages ==
    [From : Byzantine, RoundInfo : Rounds, Message : Payloads, IsBroadcast : BOOLEAN]

\* WireMessage.GetCacheKey: (round identifier, sender party ID)
GetCacheKey(wireMsg) == <<wireMsg.RoundInfo, wireMsg.From>>
Keys == {GetCacheKey(w) : w \in WireMessages}

\* BroadcastConfirmMessage{PartyID, Key, Hash}
BroadcastConfirmMessage(p, k, h) == [PartyID |-> p, Key |-> k, Hash |-> h]

\* WrappedMessage{MessageType, Payload}
WrappedMessage(type, payload) == [MessageType |-> type, Payload |-> payload]

VARIABLES
    keyGenInfo,           \* per node: is the local party set (t.keyGenInfo != nil)
    queuedMsgs,           \* per node: messages queued before the party is ready
    unConfirmedMessages,  \* per node: cache key -> LocalCacheItem
    network,              \* VerMsg handed to comm.Broadcast by the nodes
    nUpdates,             \* per node and key: broadcast messages given to the party
    lastUpdate            \* per node: the last call of Party.UpdateFromBytes

tssVars == <<keyGenInfo, queuedMsgs, unConfirmedMessages, network, nUpdates, lastUpdate>>

VARIABLES
    ceremonies,           \* pc.ceremonies: message ID -> Ceremony
    requests              \* the join requests: their JoinParty and their handler

pcVars == <<ceremonies, requests>>

VARIABLES
    callers,              \* the peers that call JoinPartyWithRetry for the message ID
    peersGroup,           \* per peer: its call and its entry of pc.peersGroup
    streams               \* join requests written to a stream: <<from, to>>

pgVars == <<callers, peersGroup, streams>>

VARIABLES
    keygenCalls,          \* the calls of TssServer.Keygen and where they are
    tssKeyGenLocker,      \* t.tssKeyGenLocker: the call that holds it, 0 for none
    subscribed,           \* the calls whose message ID is subscribed
    Status                \* t.Status: SucKeyGen, FailedKeyGen

kgVars == <<keygenCalls, tssKeyGenLocker, subscribed, Status>>

VARIABLES
    blameItems,           \* the cached items handed to the blame functions
    standbyNodes,         \* roundMgr.GetNodesForGivenRound(lastMessageType)
    hashCheckErr,         \* the error handed to getHashCheckBlamePeers
    blameResult           \* the function applied last and what it returned

blVars == <<blameItems, standbyNodes, hashCheckErr, blameResult>>

VARIABLES
    bBlameNodes,           \* b.BlameNodes of one Blame
    addCall               \* the last call of AddBlameNodes on it

bnVars == <<bBlameNodes, addCall>>

VARIABLES
    nMessages,            \* n.messages of one Notifier
    poolPubKeyOk,         \* whether n.poolPubKey decodes
    nResp,                 \* n.resp: the buffer of the channel
    sigCalls,             \* the calls of ProcessSignature and where they are
    lastSubmit            \* the batch of the call that moved last

ntVars == <<nMessages, poolPubKeyOk, nResp, sigCalls, lastSubmit>>

VARIABLES
    received              \* the message the transport handed over last, and
                          \* whether its signature is the claimed sender's

\* the inputs and the result of getParties and GetParties
VARIABLES keysA, keysB, localPartyKey, partiesRes
ptVars == <<keysA, keysB, localPartyKey, partiesRes>>

\* the value handed to GetThreshold and what it returned
VARIABLES thValue, thResult
thVars == <<thValue, thResult>>

\* the SignatureData handed to getSignatureBytes and what it returned
VARIABLES sigData, sigBytesResult
sbVars == <<sigData, sigBytesResult>>

\* the goroutines of a node, their channels and the stop
VARIABLES
    stopChan,             \* t.stopChan is closed
    pcStopChan,           \* pc.stopChan is closed
    commPc,               \* where processComm is
    bcastPc,              \* where processBroadcastChannel is
    partyReady,           \* isLocalPartyReady()
    nQueued,              \* len(t.queuedMsgs)
    leaderPc,             \* where the leader's onJoinParty is
    leaderLeft            \* the requests its loop has still to answer

stVars == <<stopChan, pcStopChan, commPc, bcastPc, partyReady, nQueued, leaderPc, leaderLeft>>

\* the leader's requests at the grain of pc.ceremonyLock
VARIABLES
    lkHolder,             \* the request whose goroutine holds pc.ceremonyLock, 0 for none
    lkPc,                 \* where the goroutine of each request is
    lkExists,             \* the ceremony is in pc.ceremonies
    lkRequests,           \* its JoinPartyRequests
    lkResp,               \* the number of responses buffered in each Resp
    lkIdx                 \* the place of the holder's loop over JoinPartyRequests

lkVars == <<lkHolder, lkPc, lkExists, lkRequests, lkResp, lkIdx>>

\* one call of JoinPartyWithRetry
VARIABLES
    rtPc,                 \* idle, retrying (inside backoff.Retry), returned
    rtLog,                \* what the calls of JoinParty returned, in order
    rtBudget,             \* what is left of bf.MaxElapsedTime
    rtResp,               \* resp
    rtErr                 \* the error returned is not nil

rtVars == <<rtPc, rtLog, rtBudget, rtResp, rtErr>>

\* the queue of the local node: what was done last
VARIABLES
    qhLastOp,             \* the handler that ran last
    qhDrained             \* the queue the last processQueuedMessages found

qhVars == <<qhLastOp, qhDrained>>

\* the keygen requests of the HTTP driver
VARIABLES
    gkKeyGenInfo,         \* t.keyGenInfo: the request whose party is set, 0 for nil
    gkPc,                 \* where the handler of each request is
    gkGo,                 \* where the party-start goroutine of each request is
    gkRet                 \* how generateNewKey returned

gkVars == <<gkKeyGenInfo, gkPc, gkGo, gkRet>>

vars == <<tssVars, pcVars, pgVars, kgVars, blVars, received, bnVars, ntVars, ptVars, thVars, sbVars, stVars, lkVars, rtVars, qhVars, gkVars>>

\* what the actions of one component leave alone
exceptTss == <<pcVars, pgVars, kgVars, blVars, received, bnVars, ntVars, ptVars, thVars, sbVars, stVars, lkVars, rtVars, qhVars, gkVars>>
exceptPc == <<tssVars, pgVars, kgVars, blVars, received, bnVars, ntVars, ptVars, thVars, sbVars, stVars, lkVars, rtVars, qhVars, gkVars>>
exceptPg == <<tssVars, pcVars, kgVars, blVars, received, bnVars, ntVars, ptVars, thVars, sbVars, stVars, lkVars, rtVars, qhVars, gkVars>>
exceptKg == <<tssVars, pcVars, pgVars, blVars, received, bnVars, ntVars, ptVars, thVars, sbVars, stVars, lkVars, rtVars, qhVars, gkVars>>
exceptBl == <<tssVars, pcVars, pgVars, kgVars, received, bnVars, ntVars, ptVars, thVars, sbVars, stVars, lkVars, rtVars, qhVars, gkVars>>
exceptTssReceived == <<pcVars, pgVars, kgVars, blVars, bnVars, ntVars, ptVars, thVars, sbVars, stVars, lkVars, rtVars, qhVars, gkVars>>
exceptBn == <<tssVars, pcVars, pgVars, kgVars, blVars, received, ntVars, ptVars, thVars, sbVars, stVars, lkVars, rtVars, qhVars, gkVars>>
exceptNt == <<tssVars, pcVars, pgVars, kgVars, blVars, received, bnVars, ptVars, thVars, sbVars, stVars, lkVars, rtVars, qhVars, gkVars>>
exceptPt == <<tssVars, pcVars, pgVars, kgVars, blVars, received, bnVars, ntVars, thVars, sbVars, stVars, lkVars, rtVars, qhVars, gkVars>>
exceptTh == <<tssVars, pcVars, pgVars, kgVars, blVars, received, bnVars, ntVars, ptVars, sbVars, stVars, lkVars, rtVars, qhVars, gkVars>>
exceptSb == <<tssVars, pcVars, pgVars, kgVars, blVars, received, bnVars, ntVars, ptVars, thVars, stVars, lkVars, rtVars, qhVars, gkVars>>
exceptSt == <<tssVars, pcVars, pgVars, kgVars, blVars, received, bnVars, ntVars, ptVars, thVars, sbVars, lkVars, rtVars, qhVars, gkVars>>
exceptLk == <<tssVars, pcVars, pgVars, kgVars, blVars, received, bnVars, ntVars, ptVars, thVars, sbVars, stVars, rtVars, qhVars, gkVars>>
exceptRt == <<tssVars, pcVars, pgVars, kgVars, blVars, received, bnVars, ntVars, ptVars, thVars, sbVars, stVars, lkVars, qhVars, gkVars>>
exceptQh == <<tssVars, pcVars, pgVars, kgVars, blVars, received, bnVars, ntVars, ptVars, thVars, sbVars, stVars, lkVars, rtVars, gkVars>>
exceptTssQh == <<pcVars, pgVars, kgVars, blVars, received, bnVars, ntVars, ptVars, thVars, sbVars, stVars, lkVars, rtVars, gkVars>>
exceptGk == <<tssVars, pcVars, pgVars, kgVars, blVars, received, bnVars, ntVars, ptVars, thVars, sbVars, stVars, lkVars, rtVars, qhVars>>

(***************************************************************************)
(* LocalCacheItem                                                          *)
(***************************************************************************)
EmptyMap == [x \in {} |-> Nil]

LocalCacheItem(msg, hash, confirmed) ==
    [Msg |-> msg, Hash |-> hash, ConfirmedList |-> confirmed, lock |-> "mutex"]

\* l.ConfirmedList[party] = hash
UpdateConfirmList(item, party, hash) ==
    [item EXCEPT !.ConfirmedList =
        [p \in (DOMAIN item.ConfirmedList) \cup {party} |->
            IF p = party THEN hash ELSE item.ConfirmedList[p]]]

\* len(l.ConfirmedList)
TotalConfirmParty(item) == Cardinality(DOMAIN item.ConfirmedList)

NoUpdate == [Msg |-> NilMsg, Hash |-> NoHash, ConfirmedList |-> EmptyMap]

(***************************************************************************)
(* The state of one node as the handlers read and write it.                *)
(*   cache   t.unConfirmedMessages                                         *)
(*   count   the number of UpdateFromBytes calls per cache key             *)
(*   last    the last UpdateFromBytes call                                 *)
(*   out     the VerMsg given to the broadcast channel                     *)
(***************************************************************************)
NodeState(n) ==
    [cache |-> unConfirmedMessages[n], count |-> nUpdates[n],
     last |-> lastUpdate[n], out |-> {}]

\* a nil *LocalCacheItem
NilItem == [Msg |-> NilMsg, Hash |-> NoHash, ConfirmedList |-> EmptyMap, lock |-> Nil]

\* tryGetLocalCacheItem
tryGetLocalCacheItem(s, key) ==
    IF key \in DOMAIN s.cache THEN s.cache[key] ELSE NilItem

\* updateLocalUnconfirmedMessages
updateLocalUnconfirmedMessages(s, key, item) ==
    [s EXCEPT !.cache = [k \in (DOMAIN s.cache) \cup {key} |->
                            IF k = key THEN item ELSE s.cache[k]]]

\* removeKey
removeKey(s, key) ==
    [s EXCEPT !.cache = [k \in (DOMAIN s.cache) \ {key} |-> s.cache[k]]]

\* updateLocal: the wire message is applied to the local party
\* (Party.UpdateFromBytes); item is the cache item it was taken from, nil
\* (NilItem) for a unicast message.
updateLocal(s, wireMsg, item) ==
    [s EXCEPT
        !.count = IF wireMsg.IsBroadcast
                  THEN [@ EXCEPT ![GetCacheKey(wireMsg)] = @ + 1]
                  ELSE @,
        !.last = IF item = NilItem
                 THEN [Msg |-> wireMsg, Hash |-> NoHash, ConfirmedList |-> EmptyMap]
                 ELSE [Msg |-> wireMsg, Hash |-> item.Hash,
                       ConfirmedList |-> item.ConfirmedList]]

\* processBroadcastChannel: the receiver of the unbuffered broadcast channel
\* hands the message to comm.Broadcast
processBroadcastChannel(s, msg) == [s EXCEPT !.out = @ \cup {msg}]

NumParties == Cardinality(Parties)

\* processVerMsg; ok is the outcome of Party.UpdateFromBytes
processVerMsg(s, confirm, ok) ==
    LET key == confirm.Key
        found == tryGetLocalCacheItem(s, key)
        item0 == IF found = NilItem
                 THEN LocalCacheItem(NilMsg, confirm.Hash, EmptyMap)
                 ELSE found
        item1 == UpdateConfirmList(item0, confirm.PartyID, confirm.Hash)
        s1 == updateLocalUnconfirmedMessages(s, key, item1)
    IN  IF TotalConfirmParty(item1) = NumParties - 1 /\ item1.Msg # NilMsg
        THEN LET s2 == updateLocal(s1, item1.Msg, item1)
             IN  IF ok THEN removeKey(s2, key) ELSE s2
        ELSE s1

\* processTSSMsg without its test of Routing.IsBroadcast: every message
\* goes through the cache
processTSSMsg_NoUnicast(s, n, wireMsg, ok) ==
    LET msgHash == bytesToHashString(wireMsg.Message)
        key == GetCacheKey(wireMsg)
        confirm == BroadcastConfirmMessage(n, key, msgHash)
        found == tryGetLocalCacheItem(s, key)
        item0 == IF found = NilItem
                 THEN LocalCacheItem(wireMsg, msgHash, EmptyMap)
                 ELSE IF found.Msg = NilMsg
                      THEN [found EXCEPT !.Msg = wireMsg, !.Hash = msgHash]
                      ELSE found
        item1 == UpdateConfirmList(item0, n, msgHash)
        s1 == updateLocalUnconfirmedMessages(s, key, item1)
        wrapped == WrappedMessage("VerMsg", confirm)
    IN  IF TotalConfirmParty(item1) = NumParties - 1
        THEN LET s2 == updateLocal(s1, item1.Msg, item1)
             IN  IF ok THEN processBroadcastChannel(s2, wrapped) ELSE s2
        ELSE processBroadcastChannel(s1, wrapped)

\* processTSSMsg of node n; ok is the outcome of Party.UpdateFromBytes
processTSSMsg(s, n, wireMsg, ok) ==
    IF ~wireMsg.IsBroadcast
    THEN updateLocal(s, wireMsg, NilItem)
    ELSE
    LET msgHash == bytesToHashString(wireMsg.Message)
        key == GetCacheKey(wireMsg)
        confirm == BroadcastConfirmMessage(n, key, msgHash)
        found == tryGetLocalCacheItem(s, key)
        item0 == IF found = NilItem
                 THEN LocalCacheItem(wireMsg, msgHash, EmptyMap)
                 ELSE IF found.Msg = NilMsg
                      THEN [found EXCEPT !.Msg = wireMsg, !.Hash = msgHash]
                      ELSE found
        item1 == UpdateConfirmList(item0, n, msgHash)
        s1 == updateLocalUnconfirmedMessages(s, key, item1)
        wrapped == WrappedMessage("VerMsg", confirm)
    IN  IF TotalConfirmParty(item1) = NumParties - 1
        THEN LET s2 == updateLocal(s1, item1.Msg, item1)
             IN  IF ok THEN processBroadcastChannel(s2, wrapped) ELSE s2
        ELSE processBroadcastChannel(s1, wrapped)

\* processOneMessage with the local party ready: the switch on MessageType
dispatch(s, n, wrappedMsg, ok) ==
    IF wrappedMsg.MessageType = "TSSMsg"
    THEN processTSSMsg(s, n, wrappedMsg.Payload, ok)
    ELSE processVerMsg(s, wrappedMsg.Payload, ok)

\* the loop of processQueuedMessages reading the newest message first
RECURSIVE drain_NewestFirst(_, _, _, _)
drain_NewestFirst(s, n, q, oks) ==
    IF q = <<>> THEN s
    ELSE drain_NewestFirst(dispatch(s, n, q[Len(q)], oks[Len(q)]), n,
                           SubSeq(q, 1, Len(q) - 1), SubSeq(oks, 1, Len(q) - 1))

\* the loop of processQueuedMessages over the queue q
RECURSIVE drain(_, _, _, _)
drain(s, n, q, oks) ==
    IF q = <<>> THEN s
    ELSE drain(dispatch(s, n, Head(q), Head(oks)), n, Tail(q), Tail(oks))

\* write the node state back
Store(n, s) ==
    /\ unConfirmedMessages' = [unConfirmedMessages EXCEPT ![n] = s.cache]
    /\ nUpdates' = [nUpdates EXCEPT ![n] = s.count]
    /\ lastUpdate' = [lastUpdate EXCEPT ![n] = s.last]
    /\ network' = network \cup {m.Payload : m \in s.out}

(***************************************************************************)
(* What the transport may hand to node n.                                  *)
(*                                                                         *)
(* AnyInbound: every other party is arbitrary: any wire message of the     *)
(* sender and any confirmation of any other party, in any order and any    *)
(* number of times.                                                        *)
(*                                                                         *)
(* NodeInbound: the other node runs this code too: its confirmations are   *)
(* those it has handed to comm.Broadcast; the sender sends any broadcast   *)
(* payload to any node.                                                    *)
(***************************************************************************)
AnyInbound(n) ==
    {WrappedMessage("TSSMsg", w) : w \in WireMessages}
    \cup {WrappedMessage("VerMsg", BroadcastConfirmMessage(p, k, h)) :
            p \in Parties \ {n}, k \in Keys, h \in Hashes}

NodeInbound(n) ==
    {WrappedMessage("TSSMsg", w) : w \in {x \in WireMessages : x.IsBroadcast}}
    \cup {WrappedMessage("VerMsg", v) : v \in {x \in network : x.PartyID # n}}

Room(n, k) == \A key \in Keys : nUpdates[n][key] + k <= MaxUpdates

TssInit ==
    /\ keyGenInfo = [n \in Nodes |-> FALSE]
    /\ queuedMsgs = [n \in Nodes |-> <<>>]
    /\ unConfirmedMessages = [n \in Nodes |-> EmptyMap]
    /\ network = {}
    /\ nUpdates = [n \in Nodes |-> [k \in Keys |-> 0]]
    /\ lastUpdate = [n \in Nodes |-> NoUpdate]

\* generateNewKey: the local party is started and registered
setKeyGenInfo(n) ==
    /\ ~keyGenInfo[n]
    /\ keyGenInfo' = [keyGenInfo EXCEPT ![n] = TRUE]
    /\ UNCHANGED <<queuedMsgs, unConfirmedMessages, network, nUpdates, lastUpdate>>

\* processOneMessage of node n for the message m
processOneMessage(n, m) ==
    IF ~keyGenInfo[n]
    THEN \* local party is not ready: queue it
         /\ Len(queuedMsgs[n]) < MaxQueue
         /\ queuedMsgs' = [queuedMsgs EXCEPT ![n] = Append(@, m)]
         /\ UNCHANGED <<keyGenInfo, unConfirmedMessages, network, nUpdates, lastUpdate>>
    ELSE /\ Room(n, 1)
         /\ \E ok \in BOOLEAN : Store(n, dispatch(NodeState(n), n, m, ok))
         /\ UNCHANGED <<keyGenInfo, queuedMsgs>>

\* processComm: a message of the transport is processed
processComm(n, inbound) == \E m \in inbound : processOneMessage(n, m)

\* processQueuedMessages
processQueuedMessages(n) ==
    /\ keyGenInfo[n]
    /\ Len(queuedMsgs[n]) # 0
    /\ Room(n, Len(queuedMsgs[n]))
    /\ \E oks \in [1 .. Len(queuedMsgs[n]) -> BOOLEAN] :
          Store(n, drain(NodeState(n), n, queuedMsgs[n], oks))
    /\ queuedMsgs' = [queuedMsgs EXCEPT ![n] = <<>>]
    /\ UNCHANGED keyGenInfo

(***************************************************************************)
(* The join-party coordinator of the leader (package p2p).                 *)
(***************************************************************************)
\* the leader (pc.host.ID()), the other requested peers, and a peer that is
\* not requested
Leader == "L"
AllowedPeers == {"L", "A", "B"}
UnknownPeers == {"X"}
PeerIDs == AllowedPeers \cup UnknownPeers
\* the message IDs: the leader runs a ceremony for the first only
MsgIDs == {"m1", "m2"}
LeaderMsgIDs == {"m1"}

\* GetThreshold: ceil(2n/3) - 1
GetThreshold_Floor(value) == ((2 * value) \div 3) - 1
GetThreshold(value) == ((2 * value + 2) \div 3) - 1

\* the join requests, numbered as they are made
ReqIds == 1 .. MaxRequests

\* JoinPartyResponse{ID, Type, PeerIDs}
JoinPartyResponse(id, type, peers) == [ID |-> id, Type |-> type, PeerIDs |-> peers]
NoResponse == JoinPartyResponse(Nil, "Unknown", <<>>)

\* NewJoinParty: the request with an empty response channel of capacity 1;
\* st is the place of its handler, ret what processJoinPartyRequest returned
NewJoinParty(peer, id) ==
    [Peer |-> peer, ID |-> id, st |-> "new", Resp |-> NoResponse, ret |-> NoResponse]
NoJoinParty ==
    [Peer |-> Nil, ID |-> Nil, st |-> "idle", Resp |-> NoResponse, ret |-> NoResponse]

Range(seq) == {seq[i] : i \in 1 .. Len(seq)}

\* Ceremony.ValidPeer
ValidPeer(c, peer) == peer \in c.Peers

\* Ceremony.GetParties: the peers of the recorded join requests
GetParties(c) ==
    [i \in 1 .. Len(c.JoinPartyRequests) |-> requests[c.JoinPartyRequests[i]].Peer]

\* Ceremony.IsReady: threshold+1 requests are recorded and all the requested
\* peers have arrived
IsReady(c) ==
    /\ Len(c.JoinPartyRequests) >= c.Threshold + 1
    /\ c.Peers \subseteq Range(GetParties(c))

\* pc.ceremonies[messageID] = ceremony
PutCeremony(cs, id, c) ==
    [k \in (DOMAIN cs) \cup {id} |-> IF k = id THEN c ELSE cs[k]]

DeleteCeremony_Keep(cs, id) == cs
\* delete(pc.ceremonies, messageID)
DeleteCeremony(cs, id) == [k \in (DOMAIN cs) \ {id} |-> cs[k]]

PCInit ==
    /\ ceremonies = EmptyMap
    /\ requests = [r \in ReqIds |-> NoJoinParty]

\* r is the next request to be made
MayStart(r) ==
    /\ requests[r].st = "idle"
    /\ r > 1 => requests[r - 1].st # "idle"

\* createCeremony, called by JoinParty when the remote peer is the host itself
createCeremony(r, id) ==
    /\ MayStart(r)
    /\ ceremonies' = PutCeremony(ceremonies, id,
            [ID |-> id,
             Threshold |-> GetThreshold(Cardinality(AllowedPeers)),
             JoinPartyRequests |-> <<>>,
             Status |-> "GatheringParties",
             Peers |-> AllowedPeers])
    /\ requests' = [requests EXCEPT ![r] = NewJoinParty(Leader, id)]

\* HandleStream: the join request of a remote peer arrives
HandleStream(r, peer, id) ==
    /\ peer # Leader
    /\ MayStart(r)
    /\ requests' = [requests EXCEPT ![r] = NewJoinParty(peer, id)]
    /\ UNCHANGED ceremonies

\* onJoinParty without its errLeaderNotReady return: a missing ceremony is
\* reported as an unknown peer
onJoinPartyError_NoLeaderCheck(r) ==
    IF requests[r].ID \notin DOMAIN ceremonies
    THEN "errUnknownPeer"
    ELSE IF ~ValidPeer(ceremonies[requests[r].ID], requests[r].Peer)
         THEN "errUnknownPeer"
         ELSE "nil"

\* onJoinParty without its ValidPeer check
onJoinPartyError_NoPeerCheck(r) ==
    IF requests[r].ID \notin DOMAIN ceremonies
    THEN "errLeaderNotReady"
    ELSE "nil"

\* the error onJoinParty returns for the request r
onJoinPartyError(r) ==
    IF requests[r].ID \notin DOMAIN ceremonies
    THEN "errLeaderNotReady"
    ELSE IF ~ValidPeer(ceremonies[requests[r].ID], requests[r].Peer)
         THEN "errUnknownPeer"
         ELSE "nil"

\* the loop of onJoinParty started at the second recorded request
SendResponses_SkipFirst(reqs, items, resp) ==
    [q \in ReqIds |->
        IF q \in Range(Tail(items)) THEN [reqs[q] EXCEPT !.Resp = resp] ELSE reqs[q]]

\* the loop of onJoinParty that gives resp to every recorded request (the
\* stop channel is open)
SendResponses(reqs, items, resp) ==
    [q \in ReqIds |->
        IF q \in Range(items) THEN [reqs[q] EXCEPT !.Resp = resp] ELSE reqs[q]]

\* processJoinPartyRequest up to its select: onJoinParty
onJoinParty(r) ==
    /\ requests[r].st = "new"
    /\ LET id == requests[r].ID
           err == onJoinPartyError(r)
       IN  IF err = "errLeaderNotReady"
           THEN /\ requests' = [requests EXCEPT ![r].st = "done",
                        ![r].ret = JoinPartyResponse(id, "LeaderNotReady", <<>>)]
                /\ UNCHANGED ceremonies
           ELSE IF err = "errUnknownPeer"
           THEN /\ requests' = [requests EXCEPT ![r].st = "done",
                        ![r].ret = JoinPartyResponse(id, "UnknownPeer", <<>>)]
                /\ UNCHANGED ceremonies
           ELSE LET c == [ceremonies[id] EXCEPT
                             !.JoinPartyRequests = Append(@, r)]
                    waiting == [requests EXCEPT ![r].st = "waiting"]
                IN  IF ~IsReady(c)
                    THEN /\ ceremonies' = PutCeremony(ceremonies, id, c)
                         /\ requests' = waiting
                    ELSE /\ requests' = SendResponses(waiting, c.JoinPartyRequests,
                                JoinPartyResponse(c.ID, "Success", GetParties(c)))
                         /\ ceremonies' = DeleteCeremony(ceremonies, c.ID)

\* the select of processJoinPartyRequest: case r := <-joinParty.Resp
receiveResponse(r) ==
    /\ requests[r].st = "waiting"
    /\ requests[r].Resp # NoResponse
    /\ requests' = [requests EXCEPT ![r].st = "done", ![r].ret = requests[r].Resp,
                                    ![r].Resp = NoResponse]
    /\ UNCHANGED ceremonies

\* the index onJoinPartyTimeout deletes: the last request of the peer, 0 for none
IdxToDelete(jprs, peer) ==
    LET idxs == {i \in 1 .. Len(jprs) : requests[jprs[i]].Peer = peer}
    IN  IF idxs = {} THEN 0 ELSE CHOOSE i \in idxs : \A j \in idxs : j <= i

RemoveAt(seq, idx) ==
    [i \in 1 .. Len(seq) - 1 |-> IF i < idx THEN seq[i] ELSE seq[i + 1]]

\* the select of processJoinPartyRequest: case <-time.After(pc.timeout),
\* onJoinPartyTimeout
onJoinPartyTimeout(r) ==
    /\ requests[r].st = "waiting"
    /\ LET id == requests[r].ID
       IN  IF id \notin DOMAIN ceremonies
           THEN \* return false, nil
                /\ requests' = [requests EXCEPT ![r].st = "done",
                        ![r].ret = JoinPartyResponse(id, "Timeout", <<>>)]
                /\ UNCHANGED ceremonies
           ELSE IF ceremonies[id].Status = "Finished"
           THEN \* return true: the timeout is given up, the select is entered again
                UNCHANGED <<ceremonies, requests>>
           ELSE LET c0 == ceremonies[id]
                    idx == IdxToDelete(c0.JoinPartyRequests, requests[r].Peer)
                    c == IF idx # 0
                         THEN [c0 EXCEPT !.JoinPartyRequests = RemoveAt(@, idx)]
                         ELSE c0
                IN  /\ ceremonies' = IF Len(c.JoinPartyRequests) = 0
                                     THEN DeleteCeremony(ceremonies, id)
                                     ELSE PutCeremony(ceremonies, id, c)
                    /\ requests' = [requests EXCEPT ![r].st = "done",
                            ![r].ret = JoinPartyResponse(id, "Timeout", GetParties(c))]

(***************************************************************************)
(* The join-party coordinator with peer groups (JoinPartyWithRetry over    *)
(* pc.peersGroup): every peer asks every other peer.                       *)
(***************************************************************************)
\* PeerStatus of a peer's call: the peers it has heard of, and what the call
\* returned
\*   st: idle      JoinPartyWithRetry not called
\*       creating  createJoinPartyGroups is writing pc.peersGroup
\*       polling   backoff.Retry is running
\*       removing  the call has its result, removePeerGroup is writing the map
\*       done      the call has returned
\*       crashed   the process was ended by the Go runtime
NewPeerStatus == [st |-> "idle", online |-> {}, onlinePeers |-> {}, err |-> FALSE]

\* PeerStatus.getPeersStatus: the online and the offline peers, self left out
getPeersStatus(p) ==
    [online |-> peersGroup[p].online,
     offline |-> (AllowedPeers \ {p}) \ peersGroup[p].online]

\* PeerStatus.getCoordinationStatus: all the other peers are online
getCoordinationStatus(p) == getPeersStatus(p).offline = {}

\* sendRequestToAll: one join request to each of the peers
sendRequestToAll(p, peers) == streams \cup {<<p, q>> : q \in peers}

PGInit ==
    /\ callers = {}
    /\ peersGroup = [p \in AllowedPeers |-> NewPeerStatus]
    /\ streams = {}

\* JoinPartyWithRetry: createJoinPartyGroups begins to write pc.peersGroup
createJoinPartyGroups(p) ==
    /\ p \in callers
    /\ peersGroup[p].st = "idle"
    /\ peersGroup' = [peersGroup EXCEPT ![p].st = "creating"]
    /\ UNCHANGED <<callers, streams>>

\* JoinPartyWithRetry: the group is stored, the requests are sent to the
\* offline peers, backoff.Retry starts
JoinPartyWithRetry(p) ==
    /\ peersGroup[p].st = "creating"
    /\ peersGroup' = [peersGroup EXCEPT ![p].st = "polling"]
    /\ streams' = sendRequestToAll(p, getPeersStatus(p).offline)
    /\ UNCHANGED callers

\* PeerStatus.updatePeer
updatePeer(q, remotePeer) ==
    [peersGroup EXCEPT ![q].online = @ \cup {remotePeer}]

\* HandleStream of peer q for the join request of remotePeer: the lookup of
\* pc.peersGroup takes no lock, so while q writes the map it may find the
\* group, miss it, or end the process (concurrent map read and map write)
HandleStreamPeerGroup(remotePeer, q) ==
    /\ <<remotePeer, q>> \in streams
    /\ streams' = streams \ {<<remotePeer, q>>}
    /\ UNCHANGED callers
    /\ LET st == peersGroup[q].st
       IN  \/ /\ st \in {"polling", "creating", "removing"}
              /\ peersGroup' = updatePeer(q, remotePeer)
           \/ /\ st \in {"idle", "done", "crashed", "creating", "removing"}
              /\ UNCHANGED peersGroup
           \/ /\ st \in {"creating", "removing"}
              /\ peersGroup' = [peersGroup EXCEPT ![q].st = "crashed"]

\* the backoff timer of a call is long against the delivery of requests: it
\* runs out only when every caller has started and nothing else can happen
Quiet ==
    /\ streams = {}
    /\ \A p \in callers : peersGroup[p].st \notin {"idle", "creating"}
    /\ \A p \in callers : peersGroup[p].st = "polling" => ~getCoordinationStatus(p)

\* JoinPartyWithRetry after backoff.Retry: the online peers are asked once
\* more, the caller is added, the error is nil when all peers are there
retryDone(p, timedOut) ==
    /\ peersGroup[p].st = "polling"
    /\ IF timedOut THEN Quiet ELSE getCoordinationStatus(p)
    /\ LET onlinePeers == getPeersStatus(p).online
           all == onlinePeers \cup {p}
       IN  /\ streams' = sendRequestToAll(p, onlinePeers)
           /\ peersGroup' = [peersGroup EXCEPT
                    ![p].st = "removing",
                    ![p].onlinePeers = all,
                    ![p].err = IF Cardinality(all) = Cardinality(AllowedPeers)
                               THEN FALSE ELSE timedOut]
    /\ UNCHANGED callers

\* the deferred removePeerGroup has written the map: the call returns
removePeerGroup(p) ==
    /\ peersGroup[p].st = "removing"
    /\ peersGroup' = [peersGroup EXCEPT ![p].st = "done"]
    /\ UNCHANGED <<callers, streams>>

(***************************************************************************)
(* TssServer.Keygen and the node-sync blame.                               *)
(***************************************************************************)
\* the public keys of a request; the last one is no valid key
PubKeys == {"pkL", "pkA", "pkB"}
BadKeys == {"pkBad"}

\* conversion.GetPeerIDFromPubKey: the peer of a public key, Nil for an error
GetPeerIDFromPubKey(pk) ==
    CASE pk = "pkL" -> "L"
      [] pk = "pkA" -> "A"
      [] pk = "pkB" -> "B"
      [] OTHER -> Nil

Protocols == {"proto1", "proto2"}

\* keygen.Request{Keys, Protos}
KeygenRequests ==
    [Keys : {<<"pkL", "pkA", "pkB">>, <<"pkA", "pkBad", "pkB">>},
     Protos : {{"proto1"}, {"proto1", "proto2"}}]

\* a nil []peer.ID
NilPeers == {Nil}

\* blame.NewBlameNode(pk, nil, nil)
NewBlameNode(pk) == [Pubkey |-> pk, BlameData |-> Nil, BlameSignature |-> Nil]

\* blame.NewBlame
NewBlame(reason, blameNodes) == [FailReason |-> reason, BlameNodes |-> blameNodes]

\* Manager.NodeSyncBlame: the loop over the keys; a key that has no peer ID
\* ends it with an error and the nodes found so far
RECURSIVE NodeSyncBlameNodes(_, _)
NodeSyncBlameNodes(keys, onlinePeers) ==
    IF keys = <<>> THEN <<>>
    ELSE LET peerID == GetPeerIDFromPubKey(Head(keys))
         IN  IF peerID = Nil THEN <<>>
             ELSE IF peerID \in onlinePeers
                  THEN NodeSyncBlameNodes(Tail(keys), onlinePeers)
                  ELSE <<NewBlameNode(Head(keys))>>
                           \o NodeSyncBlameNodes(Tail(keys), onlinePeers)

\* Manager.NodeSyncBlame without its test of the online peers: every key
\* is blamed
NodeSyncBlame_BlameAll(keys, onlinePeers) ==
    NewBlame("TssSyncFail", [i \in 1 .. Len(keys) |-> NewBlameNode(keys[i])])

\* Manager.NodeSyncBlame
NodeSyncBlame(keys, onlinePeers) ==
    NewBlame("TssSyncFail", NodeSyncBlameNodes(keys, onlinePeers))

\* keygen.Response; err is the error returned with it
KeygenResponse(pubKey, status, blame, err) ==
    [PubKey |-> pubKey, Status |-> status, Blame |-> blame, err |-> err]
NoKeygenResponse == KeygenResponse("", "", NewBlame("", <<>>), FALSE)

\* what t.joinParty may return for a request: no error and all the peers of
\* the keys; an error and nil when a key has no peer ID; an error and the
\* peers that were online
JoinPartyResults(req) ==
    LET keys == {req.Keys[i] : i \in 1 .. Len(req.Keys)}
        peers == {GetPeerIDFromPubKey(k) : k \in keys}
    IN  IF Nil \in peers
        THEN [onlinePeers : {NilPeers}, proto : Protocols, err : {TRUE}]
        ELSE [onlinePeers : {peers}, proto : Protocols, err : {FALSE}]
             \cup [onlinePeers : {NilPeers}, proto : Protocols, err : {TRUE}]
             \cup [onlinePeers : (SUBSET peers) \ {peers}, proto : Protocols, err : {TRUE}]

\* onlinePeers, proto and err of Keygen before t.joinParty has returned
NoJoinPartyResult == [onlinePeers |-> NilPeers, proto |-> "", err |-> FALSE]

\* sync.Mutex.Lock always succeeding
MutexFree_Always(holder) == TRUE

\* sync.Mutex.Lock succeeds when no call holds the mutex
MutexFree(holder) == holder = 0

\* the test of the negotiated protocol passing for every protocol
ProtoFound_Always(protos, proto) == TRUE

\* the loop of Keygen over req.Protos
ProtoFound(protos, proto) == proto \in protos

KeygenCalls == 1 .. MaxKeygenCalls

KGInit ==
    /\ keygenCalls = [c \in KeygenCalls |->
            [pc |-> "idle", req |-> [Keys |-> <<>>, Protos |-> {}],
             join |-> NoJoinPartyResult, resp |-> NoKeygenResponse]]
    /\ tssKeyGenLocker = 0
    /\ subscribed = {}
    /\ Status = [SucKeyGen |-> 0, FailedKeyGen |-> 0]

\* a caller calls Keygen(req) and comes to t.tssKeyGenLocker.Lock()
KeygenCall(c, req) ==
    /\ keygenCalls[c].pc = "idle"
    /\ keygenCalls' = [keygenCalls EXCEPT ![c].pc = "waiting", ![c].req = req]
    /\ UNCHANGED <<tssKeyGenLocker, subscribed, Status>>

\* t.tssKeyGenLocker.Lock()
KeygenLock(c) ==
    /\ keygenCalls[c].pc = "waiting"
    /\ MutexFree(tssKeyGenLocker)
    /\ tssKeyGenLocker' = c
    /\ keygenCalls' = [keygenCalls EXCEPT ![c].pc = "locked"]
    /\ UNCHANGED <<subscribed, Status>>

\* the return of Keygen with the deferred CancelSubscribe and Unlock
KeygenReturn(c, join, resp) ==
    /\ keygenCalls' = [keygenCalls EXCEPT ![c].pc = "returned", ![c].join = join,
                                          ![c].resp = resp]
    /\ subscribed' = subscribed \ {c}
    /\ tssKeyGenLocker' = IF tssKeyGenLocker = c THEN 0 ELSE tssKeyGenLocker

\* requestToMsgId, NewTssKeyGen and the four SetSubscribe
KeygenSubscribe(c, ok) ==
    /\ keygenCalls[c].pc = "locked"
    /\ IF ~ok
       THEN \* requestToMsgId fails
            /\ KeygenReturn(c, keygenCalls[c].join,
                            KeygenResponse("", "", NewBlame("", <<>>), TRUE))
            /\ UNCHANGED Status
       ELSE /\ keygenCalls' = [keygenCalls EXCEPT ![c].pc = "subscribed"]
            /\ subscribed' = subscribed \cup {c}
            /\ UNCHANGED <<tssKeyGenLocker, Status>>

\* t.joinParty and the handling of its result
KeygenJoinParty(c, r) ==
    /\ keygenCalls[c].pc = "subscribed"
    /\ r \in JoinPartyResults(keygenCalls[c].req)
    /\ UNCHANGED Status
    /\ IF r.err
       THEN IF r.onlinePeers = NilPeers
            THEN KeygenReturn(c, r, KeygenResponse("", "Fail",
                                NewBlame("InternalError", <<>>), FALSE))
            ELSE KeygenReturn(c, r, KeygenResponse("", "Fail",
                                NodeSyncBlame(keygenCalls[c].req.Keys, r.onlinePeers),
                                FALSE))
       ELSE IF ~ProtoFound(keygenCalls[c].req.Protos, r.proto)
            THEN KeygenReturn(c, r, KeygenResponse("", "Fail",
                                NewBlame("UnsupportedProtocol", <<>>), FALSE))
            ELSE /\ keygenCalls' = [keygenCalls EXCEPT ![c].pc = "generating",
                                                       ![c].join = r]
                 /\ UNCHANGED <<tssKeyGenLocker, subscribed>>

\* GenerateNewKey returns: with an error, or with a key of which
\* GetTssPubKey gives the public key or fails; blame is what the blame
\* manager holds
GenerateNewKey(c, ok, pubKeyOk, blame) ==
    /\ keygenCalls[c].pc = "generating"
    /\ IF ~ok
       THEN /\ Status' = [Status EXCEPT !.FailedKeyGen = @ + 1]
            /\ KeygenReturn(c, keygenCalls[c].join,
                            KeygenResponse("", "Fail", blame, TRUE))
       ELSE /\ Status' = [Status EXCEPT !.SucKeyGen = @ + 1]
            /\ KeygenReturn(c, keygenCalls[c].join,
                            KeygenResponse(IF pubKeyOk THEN "pool" ELSE "",
                                IF pubKeyOk THEN "Success" ELSE "Fail", blame, FALSE))

\* what the blame manager may hold after GenerateNewKey
KeygenBlames == {NewBlame("", <<>>), NewBlame("TssTimeout", <<NewBlameNode("pkB")>>)}

(***************************************************************************)
(* The blame functions of TssCommon and of the blame Manager.              *)
(***************************************************************************)
\* the parties of the ceremony the blame is about, and the local one
BlamePartyIDs == {"0", "1", "2", "3"}
LocalPartyID == "0"
\* a party ID that is in no map
UnknownPartyID == "9"

\* t.PartyIDtoP2PID, as SetupIDMaps fills it: every party, the local one too
PartyIDtoP2PID ==
    [p \in BlamePartyIDs |->
        CASE p = "0" -> "peer0" [] p = "1" -> "peer1"
          [] p = "2" -> "peer2" [] p = "3" -> "peer3"]
P2PIDs == {PartyIDtoP2PID[p] : p \in BlamePartyIDs}

\* partyInfo.PartyIDMap with PartyIDtoPubKey applied: the key of each party
PartyIDMap ==
    [p \in BlamePartyIDs |->
        CASE p = "0" -> "pk0" [] p = "1" -> "pk1"
          [] p = "2" -> "pk2" [] p = "3" -> "pk3"]

\* t.P2PPeers: the peers of the other parties
P2PPeers == {PartyIDtoP2PID[p] : p \in BlamePartyIDs \ {LocalPartyID}}

\* what a blame function returns: the list, in no order, and the error
BlameReturn(fn, blame, err) == [fn |-> fn, blame |-> blame, err |-> err]
NoBlameResult == BlameReturn("none", EmptyBag, FALSE)

\* AccPubKeysFromPartyIDs: the keys of the parties, an error when one of
\* them is not in the map
AccPubKeysFromPartyIDs(partyIDs, partyIDMap) ==
    IF partyIDs \subseteq DOMAIN partyIDMap
    THEN [pubKeys |-> {partyIDMap[p] : p \in partyIDs}, err |-> FALSE]
    ELSE [pubKeys |-> {}, err |-> TRUE]

\* TssCommon.GetBlamePubKeysNotInList
GetBlamePubKeysNotInList(peers) ==
    AccPubKeysFromPartyIDs(
        {partyID \in DOMAIN PartyIDtoP2PID : PartyIDtoP2PID[partyID] \notin peers},
        PartyIDMap)

\* LocalCacheItem.GetPeers: the keys of the ConfirmedList
GetPeers(item) == DOMAIN item.ConfirmedList

\* TssCommon.TssTimeoutBlame: the error of GetBlamePubKeysNotInList is only
\* logged
TssTimeoutBlame(localCachedItems) ==
    LET sumStandbyPeers ==
            UNION {GetPeers(localCachedItems[i]) : i \in
                {j \in 1 .. Len(localCachedItems) :
                    Cardinality(P2PPeers) # TotalConfirmParty(localCachedItems[j])}}
    IN  BlameReturn("TssTimeoutBlame",
                    SetToBag(GetBlamePubKeysNotInList(sumStandbyPeers).pubKeys), FALSE)

\* Manager.tssTimeoutBlame without the difference of the two sets: every
\* other party is blamed
tssTimeoutBlame_NoStandby(standby, partyIDMap) ==
    LET peersSet == {id \in DOMAIN partyIDMap : id # LocalPartyID}
    IN  [fn |-> "tssTimeoutBlame",
         blame |-> SetToBag({partyIDMap[p] : p \in peersSet}), err |-> FALSE]

\* Manager.tssTimeoutBlame; standby is what the round manager returns for
\* the last message type
tssTimeoutBlame(standby, partyIDMap) ==
    LET peersSet == {id \in DOMAIN partyIDMap : id # LocalPartyID}
        blames == peersSet \ standby
        res == AccPubKeysFromPartyIDs(blames, PartyIDMap)
    IN  BlameReturn("tssTimeoutBlame", SetToBag(res.pubKeys), res.err)

\* the peers that reported a hash: hashToPeers[h] of findBlamePeers
hashToPeers(item, h) ==
    {P2PID \in DOMAIN item.ConfirmedList : item.ConfirmedList[P2PID] = h}

\* TssCommon.findBlamePeers with the test of the bucket sizes left out:
\* every peer of another bucket is blamed
findBlamePeers_NoThreshold(localCacheItem, dataOwnerP2PID) ==
    BlameReturn("findBlamePeers",
        SetToBag({P2PID \in DOMAIN localCacheItem.ConfirmedList :
                     localCacheItem.ConfirmedList[P2PID] # localCacheItem.Hash})
            (+) SetToBag({dataOwnerP2PID}),
        FALSE)

\* TssCommon.findBlamePeers
findBlamePeers(localCacheItem, dataOwnerP2PID) ==
    LET ourHash == localCacheItem.Hash
        keys == {localCacheItem.ConfirmedList[P2PID] :
                    P2PID \in DOMAIN localCacheItem.ConfirmedList}
        threshold == GetThreshold(Cardinality(DOMAIN PartyIDMap))
        members == hashToPeers(localCacheItem, ourHash)
        blamed ==
            IF Cardinality(members) < threshold
            THEN UNION {hashToPeers(localCacheItem, key) : key \in
                    {k \in keys \ {ourHash} :
                        Cardinality(hashToPeers(localCacheItem, k)) < threshold}}
            ELSE UNION {hashToPeers(localCacheItem, key) : key \in keys \ {ourHash}}
    IN  BlameReturn("findBlamePeers",
                    SetToBag(blamed) (+) SetToBag({dataOwnerP2PID}), FALSE)

\* the errors getHashCheckBlamePeers may be given
HashCheckErrors == {"ErrHashFromOwner", "ErrHashFromPeer", "ErrHashCheck"}

\* TssCommon.getHashCheckBlamePeers with the owner's case handled as the
\* peers' case
getHashCheckBlamePeers_OwnerAsPeer(localCacheItem, err) ==
    LET dataOwner == localCacheItem.Msg.From
    IN  IF dataOwner \notin DOMAIN PartyIDtoP2PID
        THEN BlameReturn("getHashCheckBlamePeers", EmptyBag, TRUE)
        ELSE [findBlamePeers(localCacheItem, PartyIDtoP2PID[dataOwner])
                 EXCEPT !.fn = "getHashCheckBlamePeers"]

\* TssCommon.getHashCheckBlamePeers
getHashCheckBlamePeers(localCacheItem, err) ==
    LET dataOwner == localCacheItem.Msg.From
    IN  IF dataOwner \notin DOMAIN PartyIDtoP2PID
        THEN BlameReturn("getHashCheckBlamePeers", EmptyBag, TRUE)
        ELSE CASE err = "ErrHashFromOwner" ->
                    BlameReturn("getHashCheckBlamePeers",
                                SetToBag({PartyIDtoP2PID[dataOwner]}), FALSE)
               [] err = "ErrHashFromPeer" ->
                    [findBlamePeers(localCacheItem, PartyIDtoP2PID[dataOwner])
                        EXCEPT !.fn = "getHashCheckBlamePeers"]
               [] OTHER ->
                    BlameReturn("getHashCheckBlamePeers", EmptyBag, TRUE)

\* every map from some of the peers to the hashes hs
ConfirmedLists(hs) == UNION {[S -> hs] : S \in SUBSET P2PIDs}

\* a broadcast message of the round owned by a party
BlameMsg(owner) ==
    [From |-> owner, RoundInfo |-> "r1", Message |-> "A", IsBroadcast |-> TRUE]

\* the sequences of at most n elements of S
RECURSIVE SeqsUpTo(_, _)
SeqsUpTo(S, n) ==
    IF n = 0 THEN {<<>>}
    ELSE SeqsUpTo(S, n - 1) \cup
         {Append(q, x) : q \in {r \in SeqsUpTo(S, n - 1) : Len(r) = n - 1}, x \in S}

\* no blame function has been called
BLInit ==
    /\ blameItems = <<>>
    /\ standbyNodes = {}
    /\ hashCheckErr = "ErrHashFromPeer"
    /\ blameResult = NoBlameResult

\* the timeout blame is called with the cached items of the last round
ApplyTssTimeoutBlame ==
    /\ blameResult' = TssTimeoutBlame(blameItems)
    /\ UNCHANGED <<blameItems, standbyNodes, hashCheckErr>>

\* GetBroadcastBlame calls tssTimeoutBlame with m.partyInfo.PartyIDMap
ApplytssTimeoutBlame ==
    /\ blameResult' = tssTimeoutBlame(standbyNodes, PartyIDMap)
    /\ UNCHANGED <<blameItems, standbyNodes, hashCheckErr>>

\* findBlamePeers is called with an item and the peer ID of its owner
ApplyfindBlamePeers ==
    /\ Len(blameItems) = 1
    /\ blameItems[1].Msg.From \in DOMAIN PartyIDtoP2PID
    /\ blameResult' = findBlamePeers(blameItems[1],
                                      PartyIDtoP2PID[blameItems[1].Msg.From])
    /\ UNCHANGED <<blameItems, standbyNodes, hashCheckErr>>

\* getHashCheckBlamePeers is called with an item and the hash-check error
ApplygetHashCheckBlamePeers ==
    /\ Len(blameItems) = 1
    /\ blameResult' = getHashCheckBlamePeers(blameItems[1], hashCheckErr)
    /\ UNCHANGED <<blameItems, standbyNodes, hashCheckErr>>

\* nothing has been received
NoReceived == [MessageType |-> "none", IsBroadcast |-> FALSE, verifies |-> TRUE]
SGInit == received = NoReceived

\* the messages whose signature is looked at: every wire message of the
\* sender, and the confirmations of the other node
SignedInbound(n) ==
    {WrappedMessage("TSSMsg", w) : w \in WireMessages}
    \cup {WrappedMessage("VerMsg", BroadcastConfirmMessage(p, k, h)) :
            p \in Nodes \ {n}, k \in Keys, h \in Hashes}

\* processComm for a message of the transport that was, or was not, signed
\* by the party it names as its sender: the message goes to
\* processOneMessage as it is
processCommSigned(n, inbound) ==
    \E m \in inbound, verifies \in BOOLEAN :
        /\ processOneMessage(n, m)
        /\ received' = [MessageType |-> m.MessageType,
                        IsBroadcast |-> IF m.MessageType = "TSSMsg"
                                        THEN m.Payload.IsBroadcast ELSE FALSE,
                        verifies |-> verifies]

(***************************************************************************)
(* Blame.AddBlameNodes, in package blame and in package common.            *)
(***************************************************************************)
\* the blame nodes: two keys, with an empty signature or with one
BlameNodeValues ==
    [Pubkey : {"pk1", "pk2"}, BlameData : {Nil}, BlameSignature : {Nil, "sig"}]

\* Node.Equal of package blame
Equal(bn, node) ==
    bn.Pubkey = node.Pubkey /\ bn.BlameSignature = node.BlameSignature

\* Blame.AddBlameNodes of package blame
RECURSIVE AddBlameNodes(_, _)
AddBlameNodes(list, newBlameNodes) ==
    IF newBlameNodes = <<>> THEN list
    ELSE LET node == Head(newBlameNodes)
             found == \E i \in 1 .. Len(list) : Equal(node, list[i])
         IN  AddBlameNodes(IF found THEN list ELSE Append(list, node),
                           Tail(newBlameNodes))

\* Blame.AddBlameNodes of package common: bytes.Equal of the signatures
RECURSIVE CommonAddBlameNodes(_, _)
CommonAddBlameNodes(list, nodePubKeys) ==
    IF nodePubKeys = <<>> THEN list
    ELSE LET node == Head(nodePubKeys)
             found == \E i \in 1 .. Len(list) :
                         list[i].BlameSignature = node.BlameSignature
         IN  CommonAddBlameNodes(IF found THEN list ELSE Append(list, node),
                                 Tail(nodePubKeys))

NoAddCall == [fn |-> "none", nodes |-> <<>>]

BNInit ==
    /\ bBlameNodes = <<>>
    /\ addCall = NoAddCall

\* b.AddBlameNodes(nodes...) of package blame
ApplyAddBlameNodes(nodes) ==
    /\ bBlameNodes' = AddBlameNodes(bBlameNodes, nodes)
    /\ addCall' = [fn |-> "blame.AddBlameNodes", nodes |-> nodes]

\* b.AddBlameNodes(nodes...) of package common
ApplyCommonAddBlameNodes(nodes) ==
    /\ bBlameNodes' = CommonAddBlameNodes(bBlameNodes, nodes)
    /\ addCall' = [fn |-> "common.AddBlameNodes", nodes |-> nodes]

(***************************************************************************)
(* The keysign Notifier.                                                   *)
(***************************************************************************)
\* the messages to sign
SignMessages == {"m1", "m2"}

\* bc.SignatureData: the message M, and whether VerifyBytes accepts the
\* serialized (R, S) for M under the pool public key
SignatureDatas == [M : SignMessages, valid : BOOLEAN]

\* the capacity of n.resp
RespCapacity == 1

\* signatureMap of verifySignature: the last entry of sigs with the key m
signatureMap(sigs, m) ==
    LET js == {j \in 1 .. Len(sigs) : sigs[j].M = m}
    IN  IF js = {} THEN {}
        ELSE {sigs[CHOOSE j \in js : \A k \in js : k <= j]}

\* Notifier.verifySignature without the loop over n.messages
verifySignature_NoLoop(sigs) ==
    IF ~poolPubKeyOk THEN [ret |-> FALSE, err |-> TRUE]
    ELSE IF Len(sigs) # Len(nMessages) THEN [ret |-> FALSE, err |-> TRUE]
    ELSE [ret |-> TRUE, err |-> FALSE]

\* Notifier.verifySignature
verifySignature(sigs) ==
    IF ~poolPubKeyOk THEN [ret |-> FALSE, err |-> TRUE]
    ELSE IF Len(sigs) # Len(nMessages) THEN [ret |-> FALSE, err |-> TRUE]
    ELSE [ret |-> \A i \in 1 .. Len(nMessages) :
                     /\ signatureMap(sigs, nMessages[i]) # {}
                     /\ \A sig \in signatureMap(sigs, nMessages[i]) : sig.valid,
          err |-> FALSE]

SigCallIds == 1 .. MaxSubmissions

NoSubmit == [call |-> 0, data |-> <<>>]

NTInit ==
    /\ nMessages = <<"m1">>
    /\ poolPubKeyOk = TRUE
    /\ nResp = <<>>
    /\ sigCalls = [c \in SigCallIds |-> [pc |-> "idle", data |-> <<>>, ret |-> FALSE, err |-> FALSE]]
    /\ lastSubmit = NoSubmit

\* ProcessSignature(data) up to the send on n.resp; the calls are numbered
\* in the order they are made
ProcessSignature(c, data) ==
    /\ sigCalls[c].pc = "idle"
    /\ \A d \in SigCallIds : d < c => sigCalls[d].pc # "idle"
    /\ lastSubmit' = [call |-> c, data |-> data]
    /\ LET v == verifySignature(data)
       IN  IF v.err
           THEN sigCalls' = [sigCalls EXCEPT ![c] =
                    [pc |-> "returned", data |-> <<>>, ret |-> FALSE, err |-> TRUE]]
           ELSE IF ~v.ret
           THEN sigCalls' = [sigCalls EXCEPT ![c] =
                    [pc |-> "returned", data |-> <<>>, ret |-> FALSE, err |-> FALSE]]
           ELSE sigCalls' = [sigCalls EXCEPT ![c] =
                    [pc |-> "sending", data |-> data, ret |-> FALSE, err |-> FALSE]]
    /\ UNCHANGED <<nMessages, poolPubKeyOk, nResp>>

\* n.resp <- data: the send goes on when the buffer has room
sendResp(c) ==
    /\ sigCalls[c].pc = "sending"
    /\ Len(nResp) < RespCapacity
    /\ nResp' = Append(nResp, sigCalls[c].data)
    /\ sigCalls' = [sigCalls EXCEPT ![c] =
            [pc |-> "returned", data |-> <<>>, ret |-> TRUE, err |-> FALSE]]
    /\ lastSubmit' = [call |-> c, data |-> sigCalls[c].data]
    /\ UNCHANGED <<nMessages, poolPubKeyOk>>

\* the reader of GetResponseChannel() receives a batch
receiveResp ==
    /\ nResp # <<>>
    /\ nResp' = Tail(nResp)
    /\ lastSubmit' = NoSubmit
    /\ UNCHANGED <<nMessages, poolPubKeyOk, sigCalls>>

(***************************************************************************)
(* getParties (unnamed/part_007) and GetParties (conversion/conversion.go) *)
(* with SetupPartyIDMap and SetupIDMaps.  A bech32 key string is written   *)
(* as its rank in the byte order of Go strings, so that sort.Strings is    *)
(* the sort by rank; the secp256k1 key it decodes to is another number,    *)
(* and its order is not the order of the strings.                          *)
(***************************************************************************)

\* a string that is no bech32 account public key
InvalidKey == 0
Bech32Keys == 1 .. MaxSigners

\* sdk.GetAccPubKeyBech32 and new(big.Int).SetBytes: -1 stands for the error
GetAccPubKeyBech32(item) ==
    IF item = InvalidKey THEN -1
    ELSE IF item % 2 = 1 THEN item + MaxSigners ELSE item

sortStrings_NoSort(keys) == keys
sortStrings(keys) == SortSeq(keys, LAMBDA a, b : a < b)

Digits == <<"0", "1", "2", "3", "4", "5", "6", "7", "8", "9">>
Itoa(idx) == Digits[idx + 1]

NewPartyID(id, key) == [Id |-> id, Key |-> key, Index |-> -1]
NilPartyID == [Id |-> Nil, Key |-> -1, Index |-> -1]

SortPartyIDs_NoSort(ids) == ids
\* tss.SortPartyIDs: ascending by Key, and Index set to the position
SortPartyIDs(ids) ==
    LET sorted == SortSeq(ids, LAMBDA a, b : a.Key < b.Key)
    IN  [i \in 1 .. Len(sorted) |-> [sorted[i] EXCEPT !.Index = i - 1]]

PartiesReturn(partiesID, localPartyID, err) ==
    [partiesID |-> partiesID, localPartyID |-> localPartyID, err |-> err]

\* conversion.GetParties
ConversionGetParties(keys, localKey) ==
    LET sorted == sortStrings(keys)
        unSortedPartiesID ==
            [idx \in 1 .. Len(sorted) |->
                NewPartyID(Itoa(idx - 1), GetAccPubKeyBech32(sorted[idx]))]
        found == {idx \in 1 .. Len(sorted) : sorted[idx] = localKey}
    IN  IF \E idx \in 1 .. Len(sorted) : GetAccPubKeyBech32(sorted[idx]) = -1
        THEN PartiesReturn(<<>>, NilPartyID, "get account pub key address")
        ELSE IF found = {}
        THEN PartiesReturn(<<>>, NilPartyID, "local party is not in the list")
        ELSE PartiesReturn(SortPartyIDs(unSortedPartiesID),
                    unSortedPartiesID[CHOOSE idx \in found :
                                        \A other \in found : other <= idx],
                    Nil)

\* Tss.getParties: for a keysign the first threshold+1 of the sorted parties
getParties(keys, localKey, keygen) ==
    LET sorted == sortStrings(keys)
        unSortedPartiesID ==
            [idx \in 1 .. Len(sorted) |->
                NewPartyID(Itoa(idx - 1), GetAccPubKeyBech32(sorted[idx]))]
        found == {idx \in 1 .. Len(sorted) : sorted[idx] = localKey}
        localPartyID == unSortedPartiesID[CHOOSE idx \in found :
                                            \A other \in found : other <= idx]
        partiesID == SortPartyIDs(unSortedPartiesID)
        threshold == GetThreshold(Len(keys))
    IN  IF \E idx \in 1 .. Len(sorted) : GetAccPubKeyBech32(sorted[idx]) = -1
        THEN PartiesReturn(<<>>, NilPartyID, "get account pub key address")
        ELSE IF found = {}
        THEN PartiesReturn(<<>>, NilPartyID, "local party is not in the list")
        ELSE IF keygen
        THEN PartiesReturn(partiesID, localPartyID, Nil)
        ELSE PartiesReturn(SubSeq(partiesID, 1, threshold + 1), localPartyID, Nil)

\* GetPeerIDFromPartyID: the peer ID made of the party's key
GetPeerIDFromPartyID(party) == <<"peer", party.Key>>

SetupPartyIDMap(partiesID) ==
    [id \in {partiesID[i].Id : i \in 1 .. Len(partiesID)} |->
        LET last == CHOOSE i \in 1 .. Len(partiesID) :
                        /\ partiesID[i].Id = id
                        /\ \A j \in 1 .. Len(partiesID) :
                                partiesID[j].Id = id => j <= i
        IN  partiesID[last]]

SetupIDMaps(parties) ==
    [id \in DOMAIN parties |-> GetPeerIDFromPartyID(parties[id])]

\* what a caller holds after the call with keysA and the call with keysB, and
\* the maps it sets up from the parties of the first
PartiesRes(fn, keygen, a, b) ==
    [fn |-> fn, keygen |-> keygen, a |-> a, b |-> b,
     partyIDMap |-> SetupPartyIDMap(a.partiesID),
     partyIDtoP2PID |-> SetupIDMaps(SetupPartyIDMap(a.partiesID))]

NoPartiesRes ==
    PartiesRes(Nil, FALSE, PartiesReturn(<<>>, NilPartyID, Nil),
               PartiesReturn(<<>>, NilPartyID, Nil))

PTInit ==
    /\ keysA = <<>>
    /\ keysB = <<>>
    /\ localPartyKey = 1
    /\ partiesRes = NoPartiesRes

\* the lists of distinct keys
KeyLists ==
    {ks \in SeqsUpTo({InvalidKey} \cup Bech32Keys, MaxSigners + 1) :
        \A i, j \in 1 .. Len(ks) : ks[i] = ks[j] => i = j}

\* the same call made with two orderings of the same keys
ApplygetParties(keygen) ==
    /\ partiesRes' = PartiesRes("getParties", keygen,
                                 getParties(keysA, localPartyKey, keygen),
                                 getParties(keysB, localPartyKey, keygen))
    /\ UNCHANGED <<keysA, keysB, localPartyKey>>

ApplyGetParties ==
    /\ partiesRes' = PartiesRes("GetParties", TRUE,
                                 ConversionGetParties(keysA, localPartyKey),
                                 ConversionGetParties(keysB, localPartyKey))
    /\ UNCHANGED <<keysA, keysB, localPartyKey>>

(***************************************************************************)
(* GetThreshold (unnamed/part_001) as a call: the guard on negative input  *)
(* and the threshold, for any int a caller can hand over.                  *)
(***************************************************************************)
ThresholdReturn(threshold, err) == [threshold |-> threshold, err |-> err]

GetThresholdOrError(value) ==
    IF value < 0 THEN ThresholdReturn(0, "negative input")
    ELSE ThresholdReturn(GetThreshold(value), Nil)

NoThresholdCall == [called |-> FALSE, ret |-> ThresholdReturn(0, Nil)]

THInit ==
    /\ thValue = 0
    /\ thResult = NoThresholdCall

ApplyGetThreshold ==
    /\ thResult' = [called |-> TRUE, ret |-> GetThresholdOrError(thValue)]
    /\ UNCHANGED thValue

(***************************************************************************)
(* Notifier.getSignatureBytes (keysign/notifier.go).  The sizes are scaled *)
(* down: a byte has ByteBase values, a coordinate has CoordBytes bytes     *)
(* (32 in the source) and CurveN is a prime just below                     *)
(* ByteBase^CoordBytes, as the order of secp256k1 is just below 2^256.     *)
(* data.R and data.S are byte slices of any length.                        *)
(***************************************************************************)
ByteBase == 4
CoordBytes == 2
CurveN == 13

Bytes8 == 0 .. ByteBase - 1

\* new(big.Int).SetBytes: the big-endian unsigned value
RECURSIVE SetBytes(_)
SetBytes(buf) ==
    IF buf = <<>> THEN 0
    ELSE SetBytes(SubSeq(buf, 1, Len(buf) - 1)) * ByteBase + buf[Len(buf)]

\* big.Int.Bytes: the big-endian bytes of the absolute value, no leading zero
RECURSIVE BigIntBytes(_)
BigIntBytes(x) ==
    LET abs == IF x < 0 THEN -x ELSE x
    IN  IF abs = 0 THEN <<>>
        ELSE Append(BigIntBytes(abs \div ByteBase), abs % ByteBase)

\* copy(dst[hi-len(src):hi], src): the slice expression panics when its low
\* bound is negative
CopyRightAligned(dst, hi, src) ==
    [i \in 1 .. Len(dst) |->
        IF i > hi - Len(src) /\ i <= hi THEN src[i - (hi - Len(src))] ELSE dst[i]]

SigBytesReturn(panic, sigBytes) == [panic |-> panic, sigBytes |-> sigBytes]

getSignatureBytes(data) ==
    LET R == SetBytes(data.R)
        S0 == SetBytes(data.S)
        halfOrder == CurveN \div 2
        S == IF S0 > halfOrder THEN CurveN - S0 ELSE S0
        rBytes == BigIntBytes(R)
        sBytes == BigIntBytes(S)
        zero == [i \in 1 .. 2 * CoordBytes |-> 0]
    IN  IF Len(rBytes) > CoordBytes \/ Len(sBytes) > 2 * CoordBytes
        THEN SigBytesReturn(TRUE, <<>>)
        ELSE SigBytesReturn(FALSE,
                CopyRightAligned(CopyRightAligned(zero, CoordBytes, rBytes),
                                 2 * CoordBytes, sBytes))

NoSigBytesCall == [called |-> FALSE, ret |-> SigBytesReturn(FALSE, <<>>)]

SBInit ==
    /\ sigData = [R |-> <<>>, S |-> <<>>]
    /\ sigBytesResult = NoSigBytesCall

ApplygetSignatureBytes ==
    /\ sigBytesResult' = [called |-> TRUE, ret |-> getSignatureBytes(sigData)]
    /\ UNCHANGED sigData

(***************************************************************************)
(* The goroutines of a node and their channels (unnamed/part_007): the     *)
(* worker processComm with processOneMessage and processTSSMsg, the worker *)
(* processBroadcastChannel, the leader's loop in onJoinParty               *)
(* (p2p/party_coordinator.go), and the two stop channels.  queuedMsgs      *)
(* holds MaxQueue messages (1024 in the source); broadcastChannel is       *)
(* unbuffered.                                                             *)
(***************************************************************************)
STInit ==
    /\ stopChan = FALSE
    /\ pcStopChan = FALSE
    /\ commPc = "select"
    /\ bcastPc = "select"
    /\ partyReady = FALSE
    /\ nQueued = 0
    /\ leaderPc = "idle"
    /\ leaderLeft = 0

\* Start's goroutine: close(t.stopChan)
closeStopChan ==
    /\ ~stopChan
    /\ stopChan' = TRUE
    /\ UNCHANGED <<pcStopChan, commPc, bcastPc, partyReady, nQueued, leaderPc, leaderLeft>>

\* PartyCoordinator.Stop: close(pc.stopChan)
pcStop ==
    /\ ~pcStopChan
    /\ pcStopChan' = TRUE
    /\ UNCHANGED <<stopChan, commPc, bcastPc, partyReady, nQueued, leaderPc, leaderLeft>>

\* a keygen or keysign sets keyGenInfo and runs processQueuedMessages
stSetKeyGenInfo ==
    /\ ~partyReady
    /\ partyReady' = TRUE
    /\ nQueued' = 0
    /\ UNCHANGED <<stopChan, pcStopChan, commPc, bcastPc, leaderPc, leaderLeft>>

\* the ceremony ends: keyGenInfo is nil again, emptyQueuedMessages
stEmptyQueuedMessages ==
    /\ partyReady
    /\ partyReady' = FALSE
    /\ nQueued' = 0
    /\ UNCHANGED <<stopChan, pcStopChan, commPc, bcastPc, leaderPc, leaderLeft>>

\* processComm: case m := <-t.comm.messages, and processOneMessage up to
\* the point where it blocks or returns
commReceive(broadcast) ==
    /\ commPc = "select"
    /\ IF ~partyReady
       THEN \* t.queuedMsgs <- wrappedMsg
            IF nQueued < MaxQueue
            THEN nQueued' = nQueued + 1 /\ commPc' = "select"
            ELSE nQueued' = nQueued /\ commPc' = "queuedMsgs<-"
       ELSE /\ nQueued' = nQueued
            /\ commPc' = IF broadcast THEN "broadcastChannel<-" ELSE "select"
    /\ UNCHANGED <<stopChan, pcStopChan, bcastPc, partyReady, leaderPc, leaderLeft>>

\* processOneMessage: the blocked send t.queuedMsgs <- wrappedMsg goes through
commQueueSend ==
    /\ commPc = "queuedMsgs<-"
    /\ nQueued < MaxQueue
    /\ nQueued' = nQueued + 1
    /\ commPc' = "select"
    /\ UNCHANGED <<stopChan, pcStopChan, bcastPc, partyReady, leaderPc, leaderLeft>>

\* processTSSMsg: case t.broadcastChannel <- VerMsg, taken by
\* processBroadcastChannel: case msg := <-t.broadcastChannel
commBroadcastSend ==
    /\ commPc = "broadcastChannel<-"
    /\ bcastPc = "select"
    /\ commPc' = "select"
    /\ bcastPc' = "Broadcast"
    /\ UNCHANGED <<stopChan, pcStopChan, partyReady, nQueued, leaderPc, leaderLeft>>

\* processTSSMsg: case <-t.stopChan
commBroadcastStop ==
    /\ commPc = "broadcastChannel<-"
    /\ stopChan
    /\ commPc' = "select"
    /\ UNCHANGED <<stopChan, pcStopChan, bcastPc, partyReady, nQueued, leaderPc, leaderLeft>>

\* processComm: case <-t.stopChan
commStop ==
    /\ commPc = "select"
    /\ stopChan
    /\ commPc' = "done"
    /\ UNCHANGED <<stopChan, pcStopChan, bcastPc, partyReady, nQueued, leaderPc, leaderLeft>>

\* processBroadcastChannel: t.comm.Broadcast returns
bcastBroadcast ==
    /\ bcastPc = "Broadcast"
    /\ bcastPc' = "select"
    /\ UNCHANGED <<stopChan, pcStopChan, commPc, partyReady, nQueued, leaderPc, leaderLeft>>

\* processBroadcastChannel: case <-t.stopChan
bcastStop ==
    /\ bcastPc = "select"
    /\ stopChan
    /\ bcastPc' = "done"
    /\ UNCHANGED <<stopChan, pcStopChan, commPc, partyReady, nQueued, leaderPc, leaderLeft>>

\* onJoinParty: the ceremony is ready with k recorded requests
leaderReady(k) ==
    /\ leaderPc = "idle"
    /\ leaderPc' = "Resp<-"
    /\ leaderLeft' = k
    /\ UNCHANGED <<stopChan, pcStopChan, commPc, bcastPc, partyReady, nQueued>>

\* onJoinParty: case item.Resp <- resp, when the request takes it; after
\* the last one the ceremony is deleted
leaderSend ==
    /\ leaderPc = "Resp<-"
    /\ leaderLeft' = leaderLeft - 1
    /\ leaderPc' = IF leaderLeft = 1 THEN "idle" ELSE "Resp<-"
    /\ UNCHANGED <<stopChan, pcStopChan, commPc, bcastPc, partyReady, nQueued>>

\* onJoinParty: case <-pc.stopChan
leaderStop ==
    /\ leaderPc = "Resp<-"
    /\ pcStopChan
    /\ leaderPc' = "done"
    /\ UNCHANGED <<stopChan, pcStopChan, commPc, bcastPc, partyReady, nQueued, leaderLeft>>
(***************************************************************************)
(* The leader's join requests at the grain of pc.ceremonyLock: one         *)
(* ceremony, one goroutine per request.                                    *)
(*   lkPc: idle    the request has not arrived                             *)
(*         lock    onJoinParty waits at ceremonyLock.Lock()                *)
(*         body    onJoinParty holds the lock, before its lookup           *)
(*         send    onJoinParty holds the lock, in its loop of sends        *)
(*         wait    processJoinPartyRequest is at its select                *)
(*         tlock   onJoinPartyTimeout waits at ceremonyLock.Lock()         *)
(*         tbody   onJoinPartyTimeout holds the lock                       *)
(*         done    processJoinPartyRequest has returned                    *)
(***************************************************************************)
\* the capacity of JoinParty.Resp
JoinPartyRespCap == 1

\* the peer of the r-th request: the requested peers in turn
LkPeers == <<"L", "A", "B">>
LkPeer(r) == LkPeers[((r - 1) % Len(LkPeers)) + 1]

LKInit ==
    /\ lkHolder = 0
    /\ lkPc = [r \in ReqIds |-> "idle"]
    /\ lkExists = FALSE
    /\ lkRequests = <<>>
    /\ lkResp = [r \in ReqIds |-> 0]
    /\ lkIdx = 0

\* createCeremony: Lock, pc.ceremonies[messageID] = ceremony, Unlock
lkCreateCeremony ==
    /\ lkHolder = 0
    /\ ~lkExists
    /\ lkExists' = TRUE
    /\ lkRequests' = <<>>
    /\ UNCHANGED <<lkHolder, lkPc, lkResp, lkIdx>>

\* processJoinPartyRequest: the request arrives and calls onJoinParty
lkArrive(r) ==
    /\ lkPc[r] = "idle"
    /\ lkPc' = [lkPc EXCEPT ![r] = "lock"]
    /\ UNCHANGED <<lkHolder, lkExists, lkRequests, lkResp, lkIdx>>

\* pc.ceremonyLock.Lock() of onJoinParty and of onJoinPartyTimeout
lkLock(r) ==
    /\ lkPc[r] \in {"lock", "tlock"}
    /\ lkHolder = 0
    /\ lkHolder' = r
    /\ lkPc' = [lkPc EXCEPT ![r] = IF lkPc[r] = "lock" THEN "body" ELSE "tbody"]
    /\ UNCHANGED <<lkExists, lkRequests, lkResp, lkIdx>>

\* Ceremony.IsReady over the requests of the lock model
lkIsReady(reqs) ==
    /\ Len(reqs) >= GetThreshold(Len(LkPeers)) + 1
    /\ Range(LkPeers) \subseteq {LkPeer(reqs[i]) : i \in 1 .. Len(reqs)}

\* onJoinParty from its lookup to the start of its loop
lkOnJoinParty(r) ==
    /\ lkPc[r] = "body"
    /\ lkHolder = r
    /\ IF ~lkExists
       THEN \* return errLeaderNotReady
            /\ lkPc' = [lkPc EXCEPT ![r] = "done"]
            /\ lkHolder' = 0
            /\ UNCHANGED <<lkRequests, lkIdx>>
       ELSE /\ lkRequests' = Append(lkRequests, r)
            /\ IF ~lkIsReady(lkRequests')
               THEN /\ lkPc' = [lkPc EXCEPT ![r] = "wait"]
                    /\ lkHolder' = 0
                    /\ UNCHANGED lkIdx
               ELSE /\ lkPc' = [lkPc EXCEPT ![r] = "send"]
                    /\ lkIdx' = 1
                    /\ UNCHANGED lkHolder
    /\ UNCHANGED <<lkExists, lkResp>>

\* item.Resp <- resp on a channel without buffer
lkCanSend_Unbuffered(item) == lkPc[item] = "wait"
\* item.Resp <- resp can proceed: the buffer has room, or the goroutine of
\* item is at its select
lkCanSend(item) == lkResp[item] < JoinPartyRespCap \/ lkPc[item] = "wait"

\* one turn of the loop of onJoinParty: case item.Resp <- resp (the stop
\* channel is open)
lkSend(r) ==
    /\ lkPc[r] = "send"
    /\ lkHolder = r
    /\ lkIdx <= Len(lkRequests)
    /\ LET item == lkRequests[lkIdx]
       IN  /\ lkCanSend(item)
           /\ IF lkResp[item] < JoinPartyRespCap
              THEN /\ lkResp' = [lkResp EXCEPT ![item] = @ + 1]
                   /\ UNCHANGED lkPc
              ELSE /\ lkPc' = [lkPc EXCEPT ![item] = "done"]
                   /\ UNCHANGED lkResp
    /\ lkIdx' = lkIdx + 1
    /\ UNCHANGED <<lkHolder, lkExists, lkRequests>>

\* the end of onJoinParty: delete(pc.ceremonies, c.ID), the deferred Unlock
lkSendDone(r) ==
    /\ lkPc[r] = "send"
    /\ lkHolder = r
    /\ lkIdx > Len(lkRequests)
    /\ lkExists' = FALSE
    /\ lkRequests' = <<>>
    /\ lkHolder' = 0
    /\ lkIdx' = 0
    /\ lkPc' = [lkPc EXCEPT ![r] = "wait"]
    /\ UNCHANGED lkResp

\* the select of processJoinPartyRequest: case r := <-joinParty.Resp
lkReceive(r) ==
    /\ lkPc[r] = "wait"
    /\ lkResp[r] > 0
    /\ lkResp' = [lkResp EXCEPT ![r] = @ - 1]
    /\ lkPc' = [lkPc EXCEPT ![r] = "done"]
    /\ UNCHANGED <<lkHolder, lkExists, lkRequests, lkIdx>>

\* the select of processJoinPartyRequest: case <-time.After(pc.timeout)
lkTimeout(r) ==
    /\ lkPc[r] = "wait"
    /\ lkPc' = [lkPc EXCEPT ![r] = "tlock"]
    /\ UNCHANGED <<lkHolder, lkExists, lkRequests, lkResp, lkIdx>>

\* the index onJoinPartyTimeout deletes in the lock model
lkIdxToDelete(reqs, peer) ==
    LET idxs == {i \in 1 .. Len(reqs) : LkPeer(reqs[i]) = peer}
    IN  IF idxs = {} THEN 0 ELSE CHOOSE i \in idxs : \A j \in idxs : j <= i

\* onJoinPartyTimeout under the lock, and its deferred Unlock
lkOnJoinPartyTimeout(r) ==
    /\ lkPc[r] = "tbody"
    /\ lkHolder = r
    /\ IF ~lkExists
       THEN UNCHANGED <<lkExists, lkRequests>>
       ELSE LET idx == lkIdxToDelete(lkRequests, LkPeer(r))
                kept == IF idx # 0 THEN RemoveAt(lkRequests, idx) ELSE lkRequests
            IN  /\ lkRequests' = kept
                /\ lkExists' = (Len(kept) # 0)
    /\ lkHolder' = 0
    /\ lkPc' = [lkPc EXCEPT ![r] = "done"]
    /\ UNCHANGED <<lkResp, lkIdx>>

(***************************************************************************)
(* JoinPartyWithRetry: backoff.Retry around JoinParty.  The time of the    *)
(* backoff is counted in ticks; every failed attempt with its pause takes  *)
(* at least one.                                                           *)
(***************************************************************************)
RespTypes == {"Unknown", "Success", "Timeout", "LeaderNotReady", "UnknownPeer"}

\* what one call of JoinParty can return: an error, or a response
JoinPartyOutcomes ==
    {[err |-> TRUE, resp |-> NoResponse]} \cup
    {[err |-> FALSE, resp |-> JoinPartyResponse(id, t, ps)] :
        id \in MsgIDs, t \in RespTypes, ps \in {<<>>, <<"L", "A">>}}

\* the operation without its LeaderNotReady case
operationErr_NoLeaderCheck(o) == o.err
\* the operation given to backoff.Retry returns an error
operationErr(o) == o.err \/ o.resp.Type = "LeaderNotReady"

RTInit ==
    /\ rtPc = "idle"
    /\ rtLog = <<>>
    /\ rtBudget = 0
    /\ rtResp = NoResponse
    /\ rtErr = FALSE

\* JoinPartyWithRetry up to backoff.Retry
JoinPartyWithRetryStart ==
    /\ rtPc = "idle"
    /\ rtPc' = "retrying"
    /\ rtBudget' = MaxBackoffBudget
    /\ rtResp' = JoinPartyResponse(Nil, "Unknown", <<>>)
    /\ UNCHANGED <<rtLog, rtErr>>

\* one turn of backoff.Retry: the operation is called; on an error
\* bf.NextBackOff() gives the next pause, or Stop when MaxElapsedTime is
\* passed, and Retry returns the error
retryAttempt(o, took) ==
    /\ rtPc = "retrying"
    /\ took \in 1 .. rtBudget
    /\ rtLog' = Append(rtLog, o)
    /\ IF ~operationErr(o)
       THEN /\ rtResp' = o.resp
            /\ rtErr' = FALSE
            /\ rtPc' = "returned"
            /\ UNCHANGED rtBudget
       ELSE /\ rtBudget' = rtBudget - took
            /\ rtErr' = TRUE
            /\ rtPc' = IF rtBudget' = 0 THEN "returned" ELSE "retrying"
            /\ UNCHANGED rtResp

(***************************************************************************)
(* The queue of messages that arrive before the local party is set.        *)
(***************************************************************************)
\* the messages of the transport in SpecQueue: the unicast messages of the
\* sender, one broadcast message and its confirmation by the other node
QueueInbound(n) ==
    {WrappedMessage("TSSMsg", w) :
        w \in {x \in WireMessages : ~x.IsBroadcast \/ x.Message = "A"}}
    \cup {WrappedMessage("VerMsg", BroadcastConfirmMessage(p, k, bytesToHashString("A"))) :
            p \in Nodes \ {n}, k \in Keys}

\* the queues of at most MaxQueued messages
RECURSIVE QueuesUpTo(_, _)
QueuesUpTo(msgs, k) ==
    IF k = 0 THEN {<<>>}
    ELSE LET shorter == QueuesUpTo(msgs, k - 1)
         IN  shorter \cup {Append(q, m) : q \in shorter, m \in msgs}

QHInit ==
    /\ qhLastOp = "none"
    /\ qhDrained = <<>>

\* emptyQueuedMessages: the cache is replaced by an empty map, the queue is
\* read until it is empty
emptyQueuedMessages(n) ==
    /\ unConfirmedMessages' = [unConfirmedMessages EXCEPT ![n] = EmptyMap]
    /\ queuedMsgs' = [queuedMsgs EXCEPT ![n] = <<>>]
    /\ UNCHANGED <<keyGenInfo, network, nUpdates, lastUpdate>>

(***************************************************************************)
(* The HTTP keygen driver: Tss.keygen and Tss.generateNewKey.              *)
(*   gkPc: idle      the request has not arrived                           *)
(*         rejected  keygen found t.keyGenInfo set                         *)
(*         running   generateNewKey is in processKeyGen                    *)
(*         returned  generateNewKey has returned                           *)
(*   gkGo: none      no goroutine                                          *)
(*         starting  the goroutine is in keyGenParty.Start()               *)
(*         failed    Start failed, errChan is closed                       *)
(*         started   Start returned nil                                    *)
(*         set       the goroutine has called setKeyGenInfo                *)
(***************************************************************************)
KeygenReqIds == 1 .. MaxKeygenRequests

GKInit ==
    /\ gkKeyGenInfo = 0
    /\ gkPc = [r \in KeygenReqIds |-> "idle"]
    /\ gkGo = [r \in KeygenReqIds |-> "none"]
    /\ gkRet = [r \in KeygenReqIds |-> "none"]

\* keygen: the test of t.keyGenInfo, then generateNewKey up to the start of
\* its goroutine
httpKeygen(r) ==
    /\ gkPc[r] = "idle"
    /\ IF gkKeyGenInfo # 0
       THEN /\ gkPc' = [gkPc EXCEPT ![r] = "rejected"]
            /\ UNCHANGED gkGo
       ELSE /\ gkPc' = [gkPc EXCEPT ![r] = "running"]
            /\ gkGo' = [gkGo EXCEPT ![r] = "starting"]
    /\ UNCHANGED <<gkKeyGenInfo, gkRet>>

\* the goroutine of generateNewKey: keyGenParty.Start() returns
keyGenPartyStart(r, ok) ==
    /\ gkGo[r] = "starting"
    /\ gkGo' = [gkGo EXCEPT ![r] = IF ok THEN "started" ELSE "failed"]
    /\ UNCHANGED <<gkKeyGenInfo, gkPc, gkRet>>

\* the goroutine of generateNewKey: t.setKeyGenInfo(&TssKeyGenInfo{...})
gkSetKeyGenInfo(r) ==
    /\ gkGo[r] = "started"
    /\ gkKeyGenInfo' = r
    /\ gkGo' = [gkGo EXCEPT ![r] = "set"]
    /\ UNCHANGED <<gkPc, gkRet>>

\* the ways processKeyGen returns
KeygenReturns == {"success", "timeout", "stop", "startError"}

\* processKeyGen returns, generateNewKey returns, the deferred
\* t.setKeyGenInfo(nil) runs
generateNewKey(r, how) ==
    /\ gkPc[r] = "running"
    /\ how = "startError" => gkGo[r] = "failed"
    /\ how = "success" => gkGo[r] = "set"
    /\ gkKeyGenInfo' = 0
    /\ gkPc' = [gkPc EXCEPT ![r] = "returned"]
    /\ gkRet' = [gkRet EXCEPT ![r] = how]
    /\ UNCHANGED gkGo


Init == TssInit /\ PCInit /\ PGInit /\ KGInit /\ BLInit /\ SGInit /\ BNInit /\ NTInit /\ PTInit /\ THInit /\ SBInit /\ STInit /\ LKInit /\ RTInit /\ QHInit /\ GKInit

(***************************************************************************)
(* Spec: the node Local among arbitrary peers.                             *)
(***************************************************************************)
Local == "0"

Next ==
    \/ setKeyGenInfo(Local) /\ UNCHANGED exceptTss
    \/ processComm(Local, AnyInbound(Local)) /\ UNCHANGED exceptTss
    \/ processQueuedMessages(Local) /\ UNCHANGED exceptTss

Spec == Init /\ [][Next]_vars

(***************************************************************************)
(* SpecSigned: the local node, and for every message of the transport      *)
(* whether its signature is the one of the sender it names.                *)
(***************************************************************************)
NextSigned ==
    \/ setKeyGenInfo(Local) /\ received' = NoReceived /\ UNCHANGED exceptTssReceived
    \/ processCommSigned(Local, SignedInbound(Local)) /\ UNCHANGED exceptTssReceived
    \/ processQueuedMessages(Local) /\ received' = NoReceived
           /\ UNCHANGED exceptTssReceived

SpecSigned == Init /\ [][NextSigned]_vars

(***************************************************************************)
(* SpecBlameNodes: a Blame made by NewBlame from any list of nodes, and    *)
(* the calls of AddBlameNodes on it.                                       *)
(***************************************************************************)
InitBlameNodes ==
    /\ TssInit /\ PCInit /\ PGInit /\ KGInit /\ BLInit /\ SGInit /\ NTInit /\ PTInit /\ THInit /\ SBInit /\ STInit /\ LKInit /\ RTInit /\ QHInit /\ GKInit
    /\ bBlameNodes \in SeqsUpTo(BlameNodeValues, MaxBlameNodes)
    /\ addCall = NoAddCall

NextBlameNodes ==
    \/ \E nodes \in SeqsUpTo(BlameNodeValues, MaxBlameNodes) \ {<<>>} :
            ApplyAddBlameNodes(nodes) /\ UNCHANGED exceptBn
    \/ \E nodes \in SeqsUpTo(BlameNodeValues, MaxBlameNodes) \ {<<>>} :
            ApplyCommonAddBlameNodes(nodes) /\ UNCHANGED exceptBn

SpecBlameNodes == InitBlameNodes /\ [][NextBlameNodes]_vars

(***************************************************************************)
(* SpecNotifier: a Notifier made by NewNotifier for any messages, the      *)
(* calls of ProcessSignature with any batch, and the reader of its         *)
(* response channel.                                                       *)
(***************************************************************************)
InitNotifier ==
    /\ TssInit /\ PCInit /\ PGInit /\ KGInit /\ BLInit /\ SGInit /\ BNInit /\ PTInit /\ THInit /\ SBInit /\ STInit /\ LKInit /\ RTInit /\ QHInit /\ GKInit
    /\ nMessages \in SeqsUpTo(SignMessages, MaxBatch) \ {<<>>}
    /\ poolPubKeyOk \in BOOLEAN
    /\ nResp = <<>>
    /\ sigCalls = [c \in SigCallIds |->
            [pc |-> "idle", data |-> <<>>, ret |-> FALSE, err |-> FALSE]]
    /\ lastSubmit = NoSubmit

NextNotifier ==
    \/ \E c \in SigCallIds, data \in SeqsUpTo(SignatureDatas, MaxBatch) :
            ProcessSignature(c, data) /\ UNCHANGED exceptNt
    \/ \E c \in SigCallIds : sendResp(c) /\ UNCHANGED exceptNt
    \/ receiveResp /\ UNCHANGED exceptNt

SpecNotifier == InitNotifier /\ [][NextNotifier]_vars

(***************************************************************************)
(* SpecParties: getParties and GetParties called with two orderings of     *)
(* any list of distinct keys and any local key.                            *)
(***************************************************************************)
InitParties ==
    /\ TssInit /\ PCInit /\ PGInit /\ KGInit /\ BLInit /\ SGInit /\ BNInit /\ NTInit /\ THInit /\ SBInit /\ STInit /\ LKInit /\ RTInit /\ QHInit /\ GKInit
    /\ keysA \in KeyLists
    /\ keysB \in {ks \in KeyLists : Range(ks) = Range(keysA)}
    /\ localPartyKey \in Bech32Keys
    /\ partiesRes = NoPartiesRes

NextParties ==
    \/ \E keygen \in BOOLEAN : ApplygetParties(keygen) /\ UNCHANGED exceptPt
    \/ ApplyGetParties /\ UNCHANGED exceptPt

SpecParties == InitParties /\ [][NextParties]_vars

(***************************************************************************)
(* SpecThreshold: GetThreshold called with any value.                      *)
(***************************************************************************)
InitThreshold ==
    /\ TssInit /\ PCInit /\ PGInit /\ KGInit /\ BLInit /\ SGInit /\ BNInit /\ NTInit /\ PTInit /\ SBInit /\ STInit /\ LKInit /\ RTInit /\ QHInit /\ GKInit
    /\ thValue \in -MaxPartyCount .. MaxPartyCount
    /\ thResult = NoThresholdCall

NextThreshold == ApplyGetThreshold /\ UNCHANGED exceptTh

SpecThreshold == InitThreshold /\ [][NextThreshold]_vars

(***************************************************************************)
(* SpecSigBytes: getSignatureBytes called with any R and S bytes.          *)
(***************************************************************************)
InitSigBytes ==
    /\ TssInit /\ PCInit /\ PGInit /\ KGInit /\ BLInit /\ SGInit /\ BNInit /\ NTInit /\ PTInit /\ THInit /\ STInit /\ LKInit /\ RTInit /\ QHInit /\ GKInit
    /\ sigData \in [R : SeqsUpTo(Bytes8, MaxSigBytes), S : SeqsUpTo(Bytes8, MaxSigBytes)]
    /\ sigBytesResult = NoSigBytesCall

NextSigBytes == ApplygetSignatureBytes /\ UNCHANGED exceptSb

SpecSigBytes == InitSigBytes /\ [][NextSigBytes]_vars

(***************************************************************************)
(* SpecStop: the workers of a node, the leader's loop and the stop.  The   *)
(* scheduler runs every goroutine that can move; a select takes each of    *)
(* its ready cases sooner or later; messages, ceremonies and the readers   *)
(* of the Resp channels come or not.                                       *)
(***************************************************************************)
NextStop ==
    \/ closeStopChan /\ UNCHANGED exceptSt
    \/ pcStop /\ UNCHANGED exceptSt
    \/ stSetKeyGenInfo /\ UNCHANGED exceptSt
    \/ stEmptyQueuedMessages /\ UNCHANGED exceptSt
    \/ \E broadcast \in BOOLEAN : commReceive(broadcast) /\ UNCHANGED exceptSt
    \/ commQueueSend /\ UNCHANGED exceptSt
    \/ commBroadcastSend /\ UNCHANGED exceptSt
    \/ commBroadcastStop /\ UNCHANGED exceptSt
    \/ commStop /\ UNCHANGED exceptSt
    \/ bcastBroadcast /\ UNCHANGED exceptSt
    \/ bcastStop /\ UNCHANGED exceptSt
    \/ \E k \in 1 .. MaxRequests : leaderReady(k) /\ UNCHANGED exceptSt
    \/ leaderSend /\ UNCHANGED exceptSt
    \/ leaderStop /\ UNCHANGED exceptSt

SpecStop ==
    /\ Init /\ [][NextStop]_vars
    /\ WF_vars(commQueueSend /\ UNCHANGED exceptSt)
    /\ SF_vars(commBroadcastStop /\ UNCHANGED exceptSt)
    /\ SF_vars(commStop /\ UNCHANGED exceptSt)
    /\ WF_vars(bcastBroadcast /\ UNCHANGED exceptSt)
    /\ SF_vars(bcastStop /\ UNCHANGED exceptSt)
    /\ SF_vars(leaderStop /\ UNCHANGED exceptSt)

(***************************************************************************)
(* SpecNodes: two nodes that exchange their confirmations, and a sender    *)
(* that may give them different payloads.                                  *)
(***************************************************************************)
NextNodes ==
    \/ \E n \in Nodes : setKeyGenInfo(n) /\ UNCHANGED exceptTss
    \/ \E n \in Nodes : processComm(n, NodeInbound(n)) /\ UNCHANGED exceptTss
    \/ \E n \in Nodes : processQueuedMessages(n) /\ UNCHANGED exceptTss

SpecNodes == Init /\ [][NextNodes]_vars

(***************************************************************************)
(* SpecJoin: the leader's coordinator and the join requests it is sent.    *)
(***************************************************************************)
NextJoin ==
    \/ \E r \in ReqIds, id \in LeaderMsgIDs : createCeremony(r, id) /\ UNCHANGED exceptPc
    \/ \E r \in ReqIds, peer \in PeerIDs, id \in MsgIDs : HandleStream(r, peer, id) /\ UNCHANGED exceptPc
    \/ \E r \in ReqIds : onJoinParty(r) /\ UNCHANGED exceptPc
    \/ \E r \in ReqIds : receiveResponse(r) /\ UNCHANGED exceptPc
    \/ \E r \in ReqIds : onJoinPartyTimeout(r) /\ UNCHANGED exceptPc

SpecJoin == Init /\ [][NextJoin]_vars

(***************************************************************************)
(* SpecGroup: the peers of one ceremony, some or all of which call         *)
(* JoinPartyWithRetry; every step that can be taken is taken in the end.   *)
(***************************************************************************)
InitGroup ==
    /\ TssInit /\ PCInit /\ KGInit /\ BLInit /\ SGInit /\ BNInit /\ NTInit /\ PTInit /\ THInit /\ SBInit /\ STInit /\ LKInit /\ RTInit /\ QHInit /\ GKInit
    /\ callers \in SUBSET AllowedPeers \ {{}}
    /\ peersGroup = [p \in AllowedPeers |-> NewPeerStatus]
    /\ streams = {}

NextGroup ==
    \/ \E p \in AllowedPeers : createJoinPartyGroups(p) /\ UNCHANGED exceptPg
    \/ \E p \in AllowedPeers : JoinPartyWithRetry(p) /\ UNCHANGED exceptPg
    \/ \E p, q \in AllowedPeers : HandleStreamPeerGroup(p, q) /\ UNCHANGED exceptPg
    \/ \E p \in AllowedPeers, timedOut \in BOOLEAN :
            retryDone(p, timedOut) /\ UNCHANGED exceptPg
    \/ \E p \in AllowedPeers : removePeerGroup(p) /\ UNCHANGED exceptPg

SpecGroup == InitGroup /\ [][NextGroup]_vars /\ WF_vars(NextGroup)

(***************************************************************************)
(* SpecKeygen: the calls of Keygen on one TssServer.                       *)
(***************************************************************************)
NextKeygen ==
    \/ \E c \in KeygenCalls, req \in KeygenRequests :
            KeygenCall(c, req) /\ UNCHANGED exceptKg
    \/ \E c \in KeygenCalls : KeygenLock(c) /\ UNCHANGED exceptKg
    \/ \E c \in KeygenCalls, ok \in BOOLEAN :
            KeygenSubscribe(c, ok) /\ UNCHANGED exceptKg
    \/ \E c \in KeygenCalls : \E r \in JoinPartyResults(keygenCalls[c].req) :
            KeygenJoinParty(c, r) /\ UNCHANGED exceptKg
    \/ \E c \in KeygenCalls, ok, pubKeyOk \in BOOLEAN, blame \in KeygenBlames :
            GenerateNewKey(c, ok, pubKeyOk, blame) /\ UNCHANGED exceptKg

SpecKeygen == Init /\ [][NextKeygen]_vars

(***************************************************************************)
(* SpecTimeoutBlame: the two timeout blames on every list of cached items  *)
(* and every standby set.  SpecHashBlame: the hash-check blames on every   *)
(* cached item, owner and error.                                           *)
(***************************************************************************)
InitTimeoutBlame ==
    /\ TssInit /\ PCInit /\ PGInit /\ KGInit /\ SGInit /\ BNInit /\ NTInit /\ PTInit /\ THInit /\ SBInit /\ STInit /\ LKInit /\ RTInit /\ QHInit /\ GKInit
    /\ blameItems \in SeqsUpTo(
            {LocalCacheItem(BlameMsg("1"), bytesToHashString("A"), cl) :
                cl \in ConfirmedLists({bytesToHashString("A")})},
            MaxCachedItems)
    /\ standbyNodes \in SUBSET BlamePartyIDs
    /\ hashCheckErr = "ErrHashFromPeer"
    /\ blameResult = NoBlameResult

NextTimeoutBlame ==
    \/ ApplyTssTimeoutBlame /\ UNCHANGED exceptBl
    \/ ApplytssTimeoutBlame /\ UNCHANGED exceptBl

SpecTimeoutBlame == InitTimeoutBlame /\ [][NextTimeoutBlame]_vars

InitHashBlame ==
    /\ TssInit /\ PCInit /\ PGInit /\ KGInit /\ SGInit /\ BNInit /\ NTInit /\ PTInit /\ THInit /\ SBInit /\ STInit /\ LKInit /\ RTInit /\ QHInit /\ GKInit
    /\ blameItems \in
            {<<LocalCacheItem(BlameMsg(owner), h, cl)>> :
                owner \in {"1", "2", UnknownPartyID}, h \in Hashes,
                cl \in ConfirmedLists(Hashes)}
    /\ standbyNodes = {}
    /\ hashCheckErr \in HashCheckErrors
    /\ blameResult = NoBlameResult

NextHashBlame ==
    \/ ApplyfindBlamePeers /\ UNCHANGED exceptBl
    \/ ApplygetHashCheckBlamePeers /\ UNCHANGED exceptBl

SpecHashBlame == InitHashBlame /\ [][NextHashBlame]_vars

(***************************************************************************)
(* SpecLock: the goroutines of the leader's join requests and              *)
(* pc.ceremonyLock.  A goroutine that can take a step takes it, and a      *)
(* goroutine waiting at Lock() gets the mutex when it is free often enough *)
(* (sync.Mutex hands the lock to a starving waiter).                       *)
(***************************************************************************)
NextLock ==
    \/ lkCreateCeremony /\ UNCHANGED exceptLk
    \/ \E r \in ReqIds : lkArrive(r) /\ UNCHANGED exceptLk
    \/ \E r \in ReqIds : lkLock(r) /\ UNCHANGED exceptLk
    \/ \E r \in ReqIds : lkOnJoinParty(r) /\ UNCHANGED exceptLk
    \/ \E r \in ReqIds : lkSend(r) /\ UNCHANGED exceptLk
    \/ \E r \in ReqIds : lkSendDone(r) /\ UNCHANGED exceptLk
    \/ \E r \in ReqIds : lkReceive(r) /\ UNCHANGED exceptLk
    \/ \E r \in ReqIds : lkTimeout(r) /\ UNCHANGED exceptLk
    \/ \E r \in ReqIds : lkOnJoinPartyTimeout(r) /\ UNCHANGED exceptLk

FairLock ==
    /\ \A r \in ReqIds : SF_vars(lkLock(r) /\ UNCHANGED exceptLk)
    /\ \A r \in ReqIds : WF_vars(lkOnJoinParty(r) /\ UNCHANGED exceptLk)
    /\ \A r \in ReqIds : WF_vars(lkSend(r) /\ UNCHANGED exceptLk)
    /\ \A r \in ReqIds : WF_vars(lkSendDone(r) /\ UNCHANGED exceptLk)
    /\ \A r \in ReqIds : WF_vars(lkOnJoinPartyTimeout(r) /\ UNCHANGED exceptLk)

SpecLock == Init /\ [][NextLock]_vars /\ FairLock

(***************************************************************************)
(* SpecRetry: one call of JoinPartyWithRetry against any answers of        *)
(* JoinParty.                                                              *)
(***************************************************************************)
NextRetry ==
    \/ JoinPartyWithRetryStart /\ UNCHANGED exceptRt
    \/ \E o \in JoinPartyOutcomes, took \in 1 .. MaxBackoffBudget :
            retryAttempt(o, took) /\ UNCHANGED exceptRt

SpecRetry == Init /\ [][NextRetry]_vars /\ WF_vars(NextRetry)

(***************************************************************************)
(* SpecQueue: the local node with any messages queued before its party is  *)
(* set, and its teardown.                                                  *)
(***************************************************************************)
InitQueue ==
    /\ PCInit /\ PGInit /\ KGInit /\ BLInit /\ SGInit /\ BNInit /\ NTInit /\ PTInit /\ THInit /\ SBInit /\ STInit /\ LKInit /\ RTInit /\ QHInit /\ GKInit
    /\ keyGenInfo = [n \in Nodes |-> FALSE]
    /\ queuedMsgs \in {[n \in Nodes |-> IF n = Local THEN q ELSE <<>>] :
                          q \in QueuesUpTo(QueueInbound(Local), MaxQueued)}
    /\ unConfirmedMessages = [n \in Nodes |-> EmptyMap]
    /\ network = {}
    /\ nUpdates = [n \in Nodes |-> [k \in Keys |-> 0]]
    /\ lastUpdate = [n \in Nodes |-> NoUpdate]

NextQueue ==
    \/ /\ setKeyGenInfo(Local)
       /\ qhLastOp' = "setKeyGenInfo" /\ UNCHANGED qhDrained
       /\ UNCHANGED exceptTssQh
    \/ /\ processComm(Local, QueueInbound(Local))
       /\ qhLastOp' = "processOneMessage" /\ UNCHANGED qhDrained
       /\ UNCHANGED exceptTssQh
    \/ /\ processQueuedMessages(Local)
       /\ qhLastOp' = "processQueuedMessages" /\ qhDrained' = queuedMsgs[Local]
       /\ UNCHANGED exceptTssQh
    \/ /\ emptyQueuedMessages(Local)
       /\ qhLastOp' = "emptyQueuedMessages" /\ UNCHANGED qhDrained
       /\ UNCHANGED exceptTssQh

SpecQueue == InitQueue /\ [][NextQueue]_vars

(***************************************************************************)
(* SpecDriver: the keygen requests of the HTTP driver, each with its       *)
(* handler and its party-start goroutine.                                  *)
(***************************************************************************)
NextDriver ==
    \/ \E r \in KeygenReqIds : httpKeygen(r) /\ UNCHANGED exceptGk
    \/ \E r \in KeygenReqIds, ok \in BOOLEAN :
            keyGenPartyStart(r, ok) /\ UNCHANGED exceptGk
    \/ \E r \in KeygenReqIds : gkSetKeyGenInfo(r) /\ UNCHANGED exceptGk
    \/ \E r \in KeygenReqIds, how \in KeygenReturns :
            generateNewKey(r, how) /\ UNCHANGED exceptGk

SpecDriver == Init /\ [][NextDriver]_vars

(***************************************************************************)
(* The broadcast confirm engine: claims C1 to C4.                          *)
(***************************************************************************)
\* the last update of node n's party was a broadcast message
BroadcastDelivered(n) == lastUpdate[n].Msg.IsBroadcast

\* C1: at-most-once delivery: for every cache key (round, sender) the local
\* party is updated with a broadcast message at most once, whatever the
\* order and repetition of the message and of its confirmations.
C1_AtMostOnceDelivery ==
    \A n \in Nodes : \A k \in Keys : nUpdates[n][k] <= 1

\* C2: confirm-before-deliver: when a broadcast message is given to the local
\* party, a confirmation of every participant other than the local node is
\* recorded for its key.
C2_ConfirmBeforeDeliver ==
    \A n \in Nodes :
        BroadcastDelivered(n) =>
            (Parties \ {n}) \subseteq DOMAIN lastUpdate[n].ConfirmedList

\* C3: a broadcast message is given to the local party only if every hash
\* recorded in the ConfirmedList of its cache item equals the item's Hash.
C3_DeliverOnlyOnEqualHashes ==
    \A n \in Nodes :
        BroadcastDelivered(n) =>
            \A p \in DOMAIN lastUpdate[n].ConfirmedList :
                lastUpdate[n].ConfirmedList[p] = lastUpdate[n].Hash

\* C4: equivocation detection: when the sender gave two nodes different
\* payloads and the nodes have exchanged their hashes, neither node gives the
\* payload to its party: no party is updated from an item in which the
\* node's own hash and the hash confirmed by the other node differ.
C4_NoDeliveryUnderEquivocation ==
    \A n \in Nodes : \A m \in Nodes \ {n} :
        ~ /\ BroadcastDelivered(n)
          /\ {n, m} \subseteq DOMAIN lastUpdate[n].ConfirmedList
          /\ lastUpdate[n].ConfirmedList[n] # lastUpdate[n].ConfirmedList[m]

(***************************************************************************)
(* The join-party coordinator: claims C5 to C10.                           *)
(***************************************************************************)
\* the step puts a Success response on the response channel of request r
SuccessProduced(r) ==
    /\ requests[r].Resp.Type # "Success"
    /\ requests'[r].Resp.Type = "Success"

\* the step ends processJoinPartyRequest for request r
Returns(r) == requests[r].st # "done" /\ requests'[r].st = "done"

C6_IdempotentJoin ==
    \A id \in DOMAIN ceremonies :
        LET parties == GetParties(ceremonies[id])
        IN  \A i, j \in 1 .. Len(parties) : parties[i] = parties[j] => i = j

\* C7: Finished wins over timeout: a waiting request that has a Success
\* response on its response channel never returns a Timeout response.
C7_FinishedWinsOverTimeout ==
    [][\A r \in ReqIds :
        (/\ requests[r].st = "waiting"
         /\ requests[r].Resp.Type = "Success"
         /\ Returns(r)) => requests'[r].ret.Type # "Timeout"
    ]_vars

\* C8: the PeerIDs of a Timeout response are exactly the peers recorded in the
\* ceremony when the timeout fired, the requester that timed out included.
C8_TimeoutPeerIDs ==
    [][\A r \in ReqIds :
        (/\ Returns(r)
         /\ requests'[r].ret.Type = "Timeout"
         /\ requests[r].ID \in DOMAIN ceremonies
         /\ r \in Range(ceremonies[requests[r].ID].JoinPartyRequests)) =>
            /\ Range(requests'[r].ret.PeerIDs) =
                    Range(GetParties(ceremonies[requests[r].ID]))
            /\ requests[r].Peer \in Range(requests'[r].ret.PeerIDs)
    ]_vars

\* C9: a join request for an ID the leader holds no ceremony for is answered
\* LeaderNotReady without waiting, and the ceremonies are left as they are.
C9_LeaderNotReady ==
    [][\A r \in ReqIds :
        (/\ requests[r].st = "new"
         /\ requests[r].ID \notin DOMAIN ceremonies
         /\ requests'[r] # requests[r]) =>
            /\ requests'[r].st = "done"
            /\ requests'[r].ret =
                    JoinPartyResponse(requests[r].ID, "LeaderNotReady", <<>>)
            /\ ceremonies' = ceremonies
    ]_vars

\* a request was answered LeaderNotReady while the leader held a ceremony
\* for another request
C9_Witness ==
    \E r \in ReqIds :
        /\ requests[r].st = "done"
        /\ requests[r].ret.Type = "LeaderNotReady"
        /\ requests[r].Peer # Leader
        /\ ceremonies # EmptyMap

\* C10: a join request of a peer that is not among the ceremony's peers is
\* answered UnknownPeer; the ceremony, its recorded requests and its readiness
\* are left as they are, and no other request is answered.
C10_UnknownPeer ==
    [][\A r \in ReqIds :
        (/\ requests[r].st = "new"
         /\ requests[r].ID \in DOMAIN ceremonies
         /\ ~ValidPeer(ceremonies[requests[r].ID], requests[r].Peer)
         /\ requests'[r] # requests[r]) =>
            /\ requests'[r].st = "done"
            /\ requests'[r].ret =
                    JoinPartyResponse(requests[r].ID, "UnknownPeer", <<>>)
            /\ ceremonies' = ceremonies
            /\ IsReady(ceremonies[requests[r].ID])' = IsReady(ceremonies[requests[r].ID])
            /\ \A q \in ReqIds \ {r} : requests'[q] = requests[q]
    ]_vars

\* a peer outside the allowed set was answered UnknownPeer by a ceremony that
\* has recorded a request
C10_Witness ==
    \E r \in ReqIds :
        /\ requests[r].st = "done"
        /\ requests[r].ret.Type = "UnknownPeer"
        /\ requests[r].Peer \in UnknownPeers
        /\ requests[r].ID \in DOMAIN ceremonies
        /\ Len(ceremonies[requests[r].ID].JoinPartyRequests) > 0

(***************************************************************************)
(* The peer-group coordinator: claims C11 and C12.                         *)
(***************************************************************************)
\* the call of JoinPartyWithRetry of peer p has its result
Returned(p) == peersGroup[p].st \in {"removing", "done"}

\* C11: when every requested peer calls JoinPartyWithRetry for the message
\* ID, every call returns in the end, with no error and with all the
\* requested peers in its list of online peers.
C11_AllJoinEventually ==
    (callers = AllowedPeers) =>
        <>(\A p \in AllowedPeers :
              /\ peersGroup[p].st = "done"
              /\ ~peersGroup[p].err
              /\ peersGroup[p].onlinePeers = AllowedPeers)

\* C12: when only some of the requested peers call JoinPartyWithRetry, each
\* call returns an error and exactly the peers that called as online peers.
C12_TimeoutOnlinePeers ==
    (callers # AllowedPeers) =>
        \A p \in callers :
            Returned(p) =>
                /\ peersGroup[p].err
                /\ peersGroup[p].onlinePeers = callers

(***************************************************************************)
(* TssServer.Keygen: claims C13, C14 and C20, checked under SpecKeygen.    *)
(***************************************************************************)
\* the call is between t.tssKeyGenLocker.Lock() and the deferred Unlock()
InFlight(c) == keygenCalls[c].pc \in {"locked", "subscribed", "generating"}

\* the public keys of a list of blame nodes
BlamedKeys(blame) == {blame.BlameNodes[i].Pubkey : i \in 1 .. Len(blame.BlameNodes)}

\* C13: single-flight keygen.  At most one call of Keygen is between the
\* acquisition and the release of the keygen lock, and a call that is
\* subscribed, joining a party or generating a key is the one that holds
\* the lock: a second call does none of these before the first returned.
C13_SingleFlightKeygen ==
    /\ \A c, d \in KeygenCalls : (InFlight(c) /\ InFlight(d)) => c = d
    /\ \A c \in KeygenCalls :
           (c \in subscribed \/ InFlight(c)) => tssKeyGenLocker = c

\* one call generates a key while a second call waits for the lock
C13_Witness ==
    \E c, d \in KeygenCalls :
        /\ keygenCalls[c].pc = "generating"
        /\ keygenCalls[d].pc = "waiting"

C20_ProtocolAndInternalError ==
    [][\A c \in KeygenCalls :
          (/\ keygenCalls[c].pc = "subscribed"
           /\ keygenCalls'[c].pc # "subscribed")
          => /\ (/\ ~keygenCalls'[c].join.err
                 /\ keygenCalls'[c].join.proto \notin keygenCalls[c].req.Protos)
                => /\ keygenCalls'[c].pc = "returned"
                   /\ keygenCalls'[c].resp.Status = "Fail"
                   /\ keygenCalls'[c].resp.Blame =
                          NewBlame("UnsupportedProtocol", <<>>)
                   /\ Status' = Status
             /\ (/\ keygenCalls'[c].join.err
                 /\ keygenCalls'[c].join.onlinePeers = NilPeers)
                => /\ keygenCalls'[c].pc = "returned"
                   /\ keygenCalls'[c].resp.Status = "Fail"
                   /\ keygenCalls'[c].resp.Blame =
                          NewBlame("InternalError", <<>>)
                   /\ Status' = Status]_vars

\* one call returned for a protocol that was not accepted, another for a
\* failure of t.joinParty with nil online peers
C20_Witness ==
    \E c, d \in KeygenCalls :
        /\ keygenCalls[c].pc = "returned"
        /\ ~keygenCalls[c].join.err
        /\ keygenCalls[c].join.proto = "proto2"
        /\ keygenCalls[c].req.Protos = {"proto1"}
        /\ keygenCalls[c].resp.Blame.FailReason = "UnsupportedProtocol"
        /\ keygenCalls[d].pc = "returned"
        /\ keygenCalls[d].join.err
        /\ keygenCalls[d].join.onlinePeers = NilPeers
        /\ keygenCalls[d].resp.Blame.FailReason = "InternalError"

(***************************************************************************)
(* The timeout blame: claim C15, checked under SpecTimeoutBlame.           *)
(***************************************************************************)
\* a timeout blame has returned
TimeoutBlameReturned == blameResult.fn \in {"TssTimeoutBlame", "tssTimeoutBlame"}

\* the parties of the standby set of the call that returned: for
\* TssTimeoutBlame the parties whose peer confirmed an item that is not
\* fully confirmed, for tssTimeoutBlame the nodes of the last round
StandbyParties ==
    IF blameResult.fn = "TssTimeoutBlame"
    THEN {p \in BlamePartyIDs :
            \E i \in 1 .. Len(blameItems) :
                /\ TotalConfirmParty(blameItems[i]) # Cardinality(P2PPeers)
                /\ PartyIDtoP2PID[p] \in DOMAIN blameItems[i].ConfirmedList}
    ELSE standbyNodes

\* the keys of a set of parties
PubKeysOf(parties) == {PartyIDMap[p] : p \in parties}

BlamedItem == blameItems[1]
DataOwnerP2PID == PartyIDtoP2PID[BlamedItem.Msg.From]
Bucket(h) ==
    {c \in DOMAIN BlamedItem.ConfirmedList : BlamedItem.ConfirmedList[c] = h}
BlameThreshold == GetThreshold(Cardinality(BlamePartyIDs))

\* the blamed set the two cases of findBlamePeers are to give
ExpectedBlamePeers ==
    IF Cardinality(Bucket(BlamedItem.Hash)) >= BlameThreshold
    THEN {c \in DOMAIN BlamedItem.ConfirmedList :
            BlamedItem.ConfirmedList[c] # BlamedItem.Hash} \cup {DataOwnerP2PID}
    ELSE {c \in DOMAIN BlamedItem.ConfirmedList :
            /\ BlamedItem.ConfirmedList[c] # BlamedItem.Hash
            /\ Cardinality(Bucket(BlamedItem.ConfirmedList[c])) < BlameThreshold}
         \cup {DataOwnerP2PID}

\* C16 as stated: the blamed set is the one of the two cases, the sender
\* is blamed and no confirmer that reported the local hash is blamed.
C16_NoLocalHashConfirmerBlamed ==
    blameResult.fn = "findBlamePeers" =>
        /\ BagToSet(blameResult.blame) = ExpectedBlamePeers
        /\ DataOwnerP2PID \in BagToSet(blameResult.blame)
        /\ \A c \in Bucket(BlamedItem.Hash) : c \notin BagToSet(blameResult.blame)

\* C16, amended: findBlamePeers returns no error; when the bucket of the
\* local hash has at least threshold members the blamed set is every
\* confirmer of another bucket and the sender, otherwise every confirmer of
\* another bucket smaller than the threshold and the sender; the sender is
\* blamed, and no confirmer other than the sender that reported the local
\* hash is blamed.
C16_FindBlamePeers ==
    blameResult.fn = "findBlamePeers" =>
        /\ ~blameResult.err
        /\ BagToSet(blameResult.blame) = ExpectedBlamePeers
        /\ DataOwnerP2PID \in BagToSet(blameResult.blame)
        /\ \A c \in Bucket(BlamedItem.Hash) \ {DataOwnerP2PID} :
               c \notin BagToSet(blameResult.blame)

\* the local hash is in a bucket below the threshold, another bucket has
\* reached it, and the sender alone is blamed
C16_Witness ==
    /\ blameResult.fn = "findBlamePeers"
    /\ Cardinality(Bucket(BlamedItem.Hash)) < BlameThreshold
    /\ \E h \in Hashes \ {BlamedItem.Hash} : Cardinality(Bucket(h)) >= BlameThreshold
    /\ BagToSet(blameResult.blame) = {DataOwnerP2PID}

\* C17: with ErrHashFromOwner and the sender in the party-ID map the blame
\* list is the sender's peer ID, once, whatever the ConfirmedList holds;
\* with an error that is neither ErrHashFromOwner nor ErrHashFromPeer, or
\* with a sender that is not in the party-ID map, getHashCheckBlamePeers
\* returns an error and no list.
C17_HashFromOwner ==
    blameResult.fn = "getHashCheckBlamePeers" =>
        /\ (/\ hashCheckErr = "ErrHashFromOwner"
            /\ BlamedItem.Msg.From \in DOMAIN PartyIDtoP2PID)
           => /\ ~blameResult.err
              /\ blameResult.blame = SetToBag({DataOwnerP2PID})
        /\ (\/ hashCheckErr \notin {"ErrHashFromOwner", "ErrHashFromPeer"}
            \/ BlamedItem.Msg.From \notin DOMAIN PartyIDtoP2PID)
           => /\ blameResult.err
              /\ blameResult.blame = EmptyBag

\* the sender alone is blamed for ErrHashFromOwner although two peers
\* confirmed another hash than the local one
C17_Witness ==
    /\ blameResult.fn = "getHashCheckBlamePeers"
    /\ hashCheckErr = "ErrHashFromOwner"
    /\ BlamedItem.Msg.From = "1"
    /\ Cardinality({c \in DOMAIN BlamedItem.ConfirmedList :
            BlamedItem.ConfirmedList[c] # BlamedItem.Hash}) = 2
    /\ blameResult.blame = SetToBag({"peer1"})

(***************************************************************************)
(* Signatures and unicast messages: claims C18 and C19.                    *)
(***************************************************************************)
\* C18: a wire message whose signature is not the one of the sender it
\* names is dropped: processing it hands nothing to the local party and
\* changes no item of the broadcast cache.  Checked under SpecSigned.
C18_UnverifiedDropped ==
    [][(received'.MessageType = "TSSMsg" /\ ~received'.verifies)
          => /\ lastUpdate' = lastUpdate
             /\ nUpdates' = nUpdates
             /\ unConfirmedMessages' = unConfirmedMessages]_vars

\* C19: a unicast wire message that reaches the ready local node is handed
\* to the local party in the same step, as it is, and the step creates or
\* changes no item of the broadcast cache, records no confirmation and
\* hands no VerMsg to the transport.  Checked under SpecSigned.
C19_UnicastBypass ==
    [][(/\ received'.MessageType = "TSSMsg"
        /\ ~received'.IsBroadcast
        /\ keyGenInfo[Local])
          => /\ lastUpdate'[Local].Msg # NilMsg
             /\ ~lastUpdate'[Local].Msg.IsBroadcast
             /\ lastUpdate'[Local].ConfirmedList = EmptyMap
             /\ unConfirmedMessages' = unConfirmedMessages
             /\ nUpdates' = nUpdates
             /\ network' = network]_vars

\* a unicast message has been handed to the local party while the cache
\* holds an item of the same sender
C19_Witness ==
    /\ received.MessageType = "TSSMsg"
    /\ ~received.IsBroadcast
    /\ keyGenInfo[Local]
    /\ lastUpdate[Local].Msg # NilMsg
    /\ ~lastUpdate[Local].Msg.IsBroadcast
    /\ unConfirmedMessages[Local] # EmptyMap

(***************************************************************************)
(* Blame de-duplication: claim C21, checked under SpecBlameNodes.          *)
(***************************************************************************)
\* the node has an entry equal to it by (Pubkey, BlameSignature) in the list
InList(node, list) ==
    \E i \in 1 .. Len(list) :
        /\ list[i].Pubkey = node.Pubkey
        /\ list[i].BlameSignature = node.BlameSignature

\* C21: a call of AddBlameNodes keeps the entries of the list where they
\* are, appends only nodes of the call that had no entry equal to them by
\* (Pubkey, BlameSignature), appends none of them twice, and leaves every
\* node of the call with an equal entry in the list; so nodes with
\* distinct keys and empty signatures are all added and a node that is
\* present is not added again.
C21_BlameDedup ==
    [][addCall' # addCall \/ bBlameNodes' # bBlameNodes =>
        /\ Len(bBlameNodes') >= Len(bBlameNodes)
        /\ SubSeq(bBlameNodes', 1, Len(bBlameNodes)) = bBlameNodes
        /\ \A i \in Len(bBlameNodes) + 1 .. Len(bBlameNodes') :
              /\ bBlameNodes'[i] \in Range(addCall'.nodes)
              /\ ~InList(bBlameNodes'[i], SubSeq(bBlameNodes', 1, i - 1))
        /\ \A i \in 1 .. Len(addCall'.nodes) :
              InList(addCall'.nodes[i], bBlameNodes')]_vars

(***************************************************************************)
(* The keysign notifier: claims C22 and C23, checked under SpecNotifier.   *)
(***************************************************************************)
\* the batch passes the verification: as many signatures as messages, and
\* for every message an entry with that message that verifies
PassesVerification(data) ==
    /\ Len(data) = Len(nMessages)
    /\ \A i \in 1 .. Len(nMessages) :
          \E j \in 1 .. Len(data) : data[j].M = nMessages[i] /\ data[j].valid

C23_OneBatch ==
    /\ Cardinality({c \in SigCallIds : sigCalls[c].pc = "returned" /\ sigCalls[c].ret}) <= 1
    /\ \A c \in SigCallIds :
          sigCalls[c].pc = "sending" =>
              \A d \in SigCallIds : ~(sigCalls[d].pc = "returned" /\ sigCalls[d].ret)

\* the keys of a list that decode, as the integers they decode to
KeyInts(keys) == {GetAccPubKeyBech32(k) : k \in Range(keys)}

\* C24: a keysign's getParties returns the same parties for two orderings of
\* the same keys; without error they are the threshold(n)+1 first parties of
\* the list sorted by key, threshold(n) being ceil(2n/3) - 1; and the call
\* fails when the local key is not in the list.
C24_KeysignSelection ==
    (partiesRes.fn = "getParties" /\ ~partiesRes.keygen) =>
        LET a == partiesRes.a
            n == Len(keysA)
            t == CHOOSE x \in -1 .. n : 3 * (x + 1) >= 2 * n /\ 3 * x < 2 * n
        IN  /\ a = partiesRes.b
            /\ localPartyKey \notin Range(keysA) => a.err # Nil
            /\ a.err = Nil =>
                /\ Len(a.partiesID) = t + 1
                /\ \A i \in 1 .. Len(a.partiesID) :
                      /\ a.partiesID[i].Key \in KeyInts(keysA)
                      /\ Cardinality({k \in KeyInts(keysA) :
                                        k < a.partiesID[i].Key}) = i - 1

\* C24 witness: a keysign over three keys given in two different orders
\* selects two of them
C24_Witness ==
    /\ partiesRes.fn = "getParties" /\ ~partiesRes.keygen
    /\ keysA # keysB
    /\ Len(keysA) = 3
    /\ partiesRes.a.err = Nil
    /\ Len(partiesRes.a.partiesID) = 2

\* C25: GetParties gives every key the party ID that is its index in the
\* lexically sorted key list, the same for two orderings of the keys; the
\* maps from party ID to key and to peer ID are one-to-one; and the call
\* fails when the local key is not among the keys.
C25_DeterministicPartyIDs ==
    partiesRes.fn = "GetParties" =>
        LET a == partiesRes.a
            ids == partiesRes.partyIDMap
            peers == partiesRes.partyIDtoP2PID
        IN  /\ a = partiesRes.b
            /\ localPartyKey \notin Range(keysA) => a.err # Nil
            /\ a.err = Nil =>
                /\ \A k \in Range(keysA) :
                      \E i \in 1 .. Len(a.partiesID) :
                        /\ a.partiesID[i].Key = GetAccPubKeyBech32(k)
                        /\ a.partiesID[i].Id =
                             Digits[Cardinality({o \in Range(keysA) : o < k}) + 1]
                /\ Len(a.partiesID) = Len(keysA)
                /\ Cardinality(DOMAIN ids) = Len(keysA)
                /\ \A x, y \in DOMAIN ids :
                      x # y => ids[x].Key # ids[y].Key /\ peers[x] # peers[y]
                /\ a.localPartyID.Key = GetAccPubKeyBech32(localPartyKey)

\* C25 witness: three keys in two different orders got their party IDs
C25_Witness ==
    /\ partiesRes.fn = "GetParties"
    /\ keysA # keysB
    /\ Len(keysA) = 3
    /\ partiesRes.a.err = Nil
    /\ Cardinality(DOMAIN partiesRes.partyIDMap) = 3

\* C26: GetThreshold returns an error for a negative value, and for n >= 0
\* the threshold ceil(2n/3) - 1, which is below n for every n >= 1.
C26_Threshold ==
    thResult.called =>
        LET t == thResult.ret.threshold
        IN  IF thValue < 0 THEN thResult.ret.err # Nil
            ELSE /\ thResult.ret.err = Nil
                 /\ 3 * (t + 1) >= 2 * thValue
                 /\ 3 * t < 2 * thValue
                 /\ thValue >= 1 => t + 1 <= thValue

\* C26 witness: the threshold of four parties is two
C26_Witness ==
    thResult.called /\ thValue = 4 /\ thResult.ret = ThresholdReturn(2, Nil)

\* C27: for every R and S, getSignatureBytes returns 2*CoordBytes bytes, the
\* first half R padded with zeros on the left, the second half S' padded the
\* same way, where S' is S if S <= N/2 and N - S otherwise, so that the
\* serialized S' is at most N/2.
C27_LowS ==
    sigBytesResult.called =>
        LET R == SetBytes(sigData.R)
            S == SetBytes(sigData.S)
            out == sigBytesResult.ret.sigBytes
        IN  /\ ~sigBytesResult.ret.panic
            /\ Len(out) = 2 * CoordBytes
            /\ SetBytes(SubSeq(out, 1, CoordBytes)) = R
            /\ SetBytes(SubSeq(out, CoordBytes + 1, 2 * CoordBytes)) =
                    (IF S <= CurveN \div 2 THEN S ELSE CurveN - S)
            /\ SetBytes(SubSeq(out, CoordBytes + 1, 2 * CoordBytes)) <= CurveN \div 2

\* C28: once the stop channels are closed, processComm and
\* processBroadcastChannel terminate, a processTSSMsg blocked on the
\* broadcast channel returns, the leader's distribution of Success stops, and
\* no worker stays blocked on a channel send, the send into the
\* queued-messages channel included.
C28_GlobalStop ==
    (stopChan /\ pcStopChan) ~>
        (commPc = "done" /\ bcastPc = "done" /\ leaderPc # "Resp<-")

\* the cache item of the local node for a key, nil when there is none
LocalItem(k) == tryGetLocalCacheItem(NodeState(Local), k)

\* the broadcast message of a key and a confirmation with its hash from every
\* other participant have been received: the item holds them all
AllReceived(k) ==
    LET item == LocalItem(k)
    IN  /\ item.Msg # NilMsg
        /\ Parties \ {Local} \subseteq DOMAIN item.ConfirmedList
        /\ \A p \in DOMAIN item.ConfirmedList :
                item.ConfirmedList[p] = bytesToHashString(item.Msg.Message)

\* C29: when the broadcast message of a key and the confirmations with its
\* hash from all other participants have been received, in whatever order,
\* the message has been delivered to the local party.
C29_AnyArrivalOrder ==
    \A k \in Keys : AllReceived(k) => nUpdates[Local][k] >= 1

\* C30: the step in which the broadcast message arrives at an item whose
\* ConfirmedList holds N-1 confirmations, one of them with a different hash,
\* delivers the message to the local party.
C30_LateMessageDelivered ==
    [][\A k \in Keys :
        LET item == LocalItem(k)
        IN  (/\ k \in DOMAIN unConfirmedMessages[Local]
             /\ item.Msg = NilMsg
             /\ TotalConfirmParty(item) = NumParties - 1
             /\ \E p, q \in DOMAIN item.ConfirmedList :
                    item.ConfirmedList[p] # item.ConfirmedList[q]
             /\ k \in DOMAIN unConfirmedMessages'[Local]
             /\ unConfirmedMessages'[Local][k].Msg # NilMsg)
            => nUpdates'[Local][k] = nUpdates[Local][k] + 1]_vars

\* C31: every step that delivers a broadcast message of a key to the local
\* party, at the arrival of the message or of a confirmation, leaves no item
\* of that key in the unconfirmed-messages map.
C31_EvictOnDelivery ==
    [][\A k \in Keys :
        nUpdates'[Local][k] > nUpdates[Local][k]
            => k \notin DOMAIN unConfirmedMessages'[Local]]_vars

\* C32: when the wait of a request times out on a ceremony that is recorded
\* and not ready, the entries of its requester are removed from the
\* ceremony's JoinPartyRequests, the other requests are kept in their order,
\* and the ceremony is deleted exactly when no request is left.
C32_WithdrawOnTimeout ==
    [][\A r \in ReqIds :
        (/\ requests[r].st = "waiting"
         /\ Returns(r)
         /\ requests'[r].ret.Type = "Timeout"
         /\ requests[r].ID \in DOMAIN ceremonies) =>
            LET id == requests[r].ID
                kept == SelectSeq(ceremonies[id].JoinPartyRequests,
                            LAMBDA q : requests[q].Peer # requests[r].Peer)
            IN  IF kept = <<>>
                THEN id \notin DOMAIN ceremonies'
                ELSE /\ id \in DOMAIN ceremonies'
                     /\ ceremonies'[id].JoinPartyRequests = kept
    ]_vars

\* the join requests made for a ceremony ID
RequestsOf(id) == {r \in ReqIds : requests[r].ID = id}

LockHolderCanStep ==
    \A r \in ReqIds :
        (lkHolder = r /\ lkPc[r] = "send" /\ lkIdx <= Len(lkRequests))
            => lkCanSend(lkRequests[lkIdx])
C35_PeersGroupLocked ==
    [][\A p, q \in AllowedPeers :
        (<<p, q>> \in streams /\ <<p, q>> \notin streams')
            => peersGroup[q].st \notin {"creating", "removing"}]_vars

\* C36: JoinPartyWithRetry calls JoinParty again after an error or a
\* LeaderNotReady response while the backoff has time left, returns the first
\* other response unchanged and without error, and always returns: when the
\* time is used up, with an error and a response of type Unknown
LastOutcome == rtLog[Len(rtLog)]
RetryReturn ==
    rtPc = "returned" =>
        /\ \A i \in 1 .. Len(rtLog) - 1 : operationErr(rtLog[i])
        /\ IF rtErr
           THEN /\ operationErr_NoLeaderCheck(LastOutcome)
                    \/ LastOutcome.resp.Type = "LeaderNotReady"
                /\ rtBudget = 0
                /\ rtResp.Type = "Unknown"
           ELSE /\ ~LastOutcome.err
                /\ LastOutcome.resp.Type # "LeaderNotReady"
                /\ rtResp = LastOutcome.resp
RECURSIVE OneAtATime(_, _, _, _)
OneAtATime(s, n, q, oks) ==
    IF q = <<>> THEN s
    ELSE dispatch(OneAtATime(s, n, SubSeq(q, 1, Len(q) - 1), SubSeq(oks, 1, Len(q) - 1)),
                  n, q[Len(q)], oks[Len(q)])

ReturnedWith(status) ==
    {c \in KeygenCalls :
        keygenCalls[c].pc = "returned" /\ keygenCalls[c].resp.Status = status}
C38_KeygenStatistics ==
    /\ Status.SucKeyGen = Cardinality(ReturnedWith("Success"))
    /\ Status.FailedKeyGen = Cardinality(ReturnedWith("Fail"))

\* C39: no blame list the node computes names the local party, neither by
\* its key (timeout blame) nor by its peer ID (hash-check blame)
C39_LocalNeverBlamed ==
    /\ ~BagIn(PartyIDMap[LocalPartyID], blameResult.blame)
    /\ ~BagIn(PartyIDtoP2PID[LocalPartyID], blameResult.blame)

\* C40: when no generateNewKey is running, t.keyGenInfo is nil: every call
\* that has returned has left it nil, whatever the order of its goroutine
\* and its deferred reset
C40_KeyGenInfoNilAfterReturn ==
    (/\ \E r \in KeygenReqIds : gkPc[r] = "returned"
     /\ \A r \in KeygenReqIds : gkPc[r] # "running")
        => gkKeyGenInfo = 0

====
